---------------------------- MODULE Spec2Model ----------------------------
(***************************************************************************)
(* A model of winit's X11 EventProcessor                                   *)
(* (src/platform_impl/linux/x11/event_processor.rs).                       *)
(*                                                                         *)
(* One call of process_event runs through the positions of pc:            *)
(*   "idle"     the event loop is between two calls                        *)
(*   "matched"  the branch of `match &event` has run to its end            *)
(*   "returned" the branch left process_event by an early `return`         *)
(*   "ime"      control is at the IME step that follows the match          *)
(*   "polled"   the IME step has run                                       *)
(* No event is taken while a call is under way.  What the step just taken  *)
(* did is recorded in the observation variables last / pre / out / sent;   *)
(* they are dropped when control moves on.                                 *)
(* Option<T> is modelled as a sequence of length <= 1.                     *)
(***************************************************************************)
EXTENDS Integers, Sequences, FiniteSets, TLC

(* ------------------------------ bounds -------------------------------- *)

\* number of windows of this process
NumWindows == 2
\* number of foreign drag sources
NumSources == 2
\* longest file list a drag transfers
MaxPaths == 2
\* number of touch contacts the server hands out ids for
NumTouchIds == 3
\* number of inner sizes a ConfigureNotify reports
NumSizes == 2
\* number of positions a ConfigureNotify reports
NumPositions == 2
\* number of geometry notifications (ConfigureNotify, RandrNotify) in a run
MaxNotifies == 3
\* number of input devices
NumDevices == 2
\* number of entries of a hierarchy-change notification
MaxInfos == 2
\* number of raw events the server sends in a run of the event loop
MaxEvents == 3
\* number of requests the application sends on the IME channel
MaxRequests == 3

(* ------------------------- program constants -------------------------- *)

KEYCODE_OFFSET == 8

Windows == 1 .. NumWindows
Sources == 101 .. (100 + NumSources)

None == << >>
Some(v) == << v >>
IsSome(o) == Len(o) = 1
Unwrap(o) == o[1]

(* ------------------------------- DND ---------------------------------- *)

TextUriList == "text/uri-list"
TextPlain == "text/plain"
AtomNone == "NONE"

\* data[2..4] of an XdndEnter message that carries its types inline
InlineTypes ==
    { << TextUriList, AtomNone, AtomNone >>,
      << TextPlain, TextUriList, AtomNone >>,
      << TextPlain, AtomNone, AtomNone >> }

\* what the XdndTypeList property of a source may hold
PropertyTypes ==
    { << TextPlain, TextPlain, TextPlain, TextUriList >>,
      << TextPlain, TextPlain, TextPlain, TextPlain >> }

\* flags words (data[1]) of XdndEnter: version in the top byte, bit 0 = more types
Pow24 == 16777216
EnterFlags == { 0, 1, 5 * Pow24, 5 * Pow24 + 1 }

AllPaths == << "a", "b", "c" >>
PathLists == { SubSeq(AllPaths, 1, n) : n \in 0 .. MaxPaths }

\* Result<Vec<PathBuf>, DndDataParseError>
Ok(paths) == [ok |-> TRUE, paths |-> paths]
Err == [ok |-> FALSE, paths |-> << >>]
ParseResults == { Ok(p) : p \in PathLists } \cup { Err }

\* ElementState
Pressed == "Pressed"
Released == "Released"

Accepted == "Accepted"
Rejected == "Rejected"

DndIdle == [version |-> None, type_list |-> None, source_window |-> None, result |-> None]

\* Dnd::reset
DndReset(d) == DndIdle

Contains(seq, x) == \E i \in 1 .. Len(seq) : seq[i] = x

\* the concatenation of a sequence of sequences
RECURSIVE Flatten(_)
Flatten(ss) == IF Len(ss) = 0 THEN << >> ELSE Head(ss) \o Flatten(Tail(ss))

(* ------------------------- geometry and monitors ---------------------- *)

\* inner sizes (width, height) a ConfigureNotify may report
Sizes == { << 4 * k, 4 * k >> : k \in 1 .. NumSizes }
\* positions (x, y) a ConfigureNotify may report
Positions == { << 10 * (k - 1), 0 >> : k \in 1 .. NumPositions }

Monitor(name, scale) == [name |-> name, scale_factor |-> scale, dummy |-> FALSE]
\* the sentinel the monitor query returns when it finds no monitor
DummyMonitor == [name |-> "", scale_factor |-> 1, dummy |-> TRUE]

\* the monitor lists the server may report: A left of B
FirstLayout == << Monitor("A", 1), Monitor("B", 2) >>
Layouts == { FirstLayout, << Monitor("A", 2), Monitor("B", 2) >>, << >> }

\* what get_frame_extents_heuristic may answer: the frame of the window manager in
\* charge at the time of the query
HeuristicExtents == [left |-> 1, top |-> 2]
FrameExtents == { HeuristicExtents, [left |-> 0, top |-> 0] }
\* FrameExtents::inner_pos_to_outer
InnerPosToOuter(fe, pos) == << pos[1] - fe.left, pos[2] - fe.top >>

\* get_monitor_for_window: the monitor of the list the rectangle lies on
MonitorForWindow(mons, outer) ==
    IF Len(mons) = 0 THEN DummyMonitor
    ELSE IF outer[1] < 5 \/ Len(mons) = 1 THEN mons[1]
    ELSE mons[2]

\* UnownedWindow::adjust_for_dpi: the size scaled by new / old
AdjustForDpi(old, new, size) == << (size[1] * new) \div old, (size[2] * new) \div old >>

\* what the sink does with the size suggestion of ScaleFactorChanged
Choices == { "keep", "revert" }
Chosen(choice, suggestion, old) == IF choice = "keep" THEN suggestion ELSE old

\* SharedWindowState of a new window
SharedNew ==
    [ size |-> None, inner_position |-> None, inner_position_rel_parent |-> None,
      position |-> None, frame_extents |-> None, dpi_adjusted |-> None,
      last_monitor |-> FirstLayout[1], cursor_pos |-> None ]

\* util::maybe_change: did the field differ from Some(value) (it is Some(value) afterwards)
MaybeChange(field, value) == field # Some(value)

(* ------------------------------ devices ------------------------------- *)

Devices == 1 .. NumDevices
\* the registry after EventProcessor construction: every device the server knows
InitialDevices == Devices


(* ------------------------------ state --------------------------------- *)

VARIABLES
    windows,         \* wt.windows: id -> "live" | "expired" (owner dropped) | "absent"
    has_focus,       \* SharedWindowState.has_focus of each window
    shared,          \* the geometry fields of each window's SharedWindowState
    dnd,             \* EventProcessor.dnd (version, type_list, source_window, result)
    active_window,   \* Option<xproto::Window>
    held_key_press,  \* Option<u32>
    is_composing,    \* bool
    mods,            \* kb_state.mods_state(): the effective modifier set
    first_touch,     \* Option<u64>
    num_touch,       \* u32
    devices,         \* EventProcessor.devices: the ids in the device registry
    event_queue,     \* EventProcessor.event_queue: raw events cached by poll()
    ime_requests,    \* the IME request channel: what was sent and not yet received
    screen,          \* environment: the monitors the server reports now
    monitor_cache,   \* xconn's cached monitor list (Option)
    conn,            \* environment: raw events waiting on the X connection
    cur,             \* the raw event poll_one_event returned, not yet processed (Option)
    keyDown,         \* history: repeatable keycodes whose last key event was a press
    touches,         \* history: the touch contacts that have begun and not ended, in the
                     \*          order they began: [id, window, seen (window existed then)]
    lastTouch,       \* history: the highest touch id the server has handed out (0: none yet)
    session,         \* history: how far the current drag's message sequence has come
    recent,          \* history: dnd.result was stored by a SelectionNotify processed after
                     \*          the most recent XdndEnter
    composer,        \* history: the window of the ImeEvent::Start that set is_composing,
                     \*          when it was the live active window then (Option; None once
                     \*          a Commit, End or Disabled cleared the flag)
    reported,        \* history: per window, the set of the last ModifiersChanged it was sent
                     \*          (empty before the first)
    announced,       \* history: per window, the scale factor of the last ScaleFactorChanged
                     \*          it was sent (Option)
    arrived,         \* history: how many raw events the server has sent
    taken,           \* history: the serials poll_one_event has returned, in order
    delivered,       \* history: what the sink has received from polled events, in order
    requested,       \* history: how many IME requests have been enqueued
    applied,         \* history: the IME requests applied to the IME, in order
    notified,        \* history: how many ConfigureNotify / RandrNotify events have been
                     \*          processed
    lastCfg,         \* history: the ConfigureNotify of the previous call, if that call was
                     \*          one and nothing touched the window's state since (Option)
    pc,              \* position of the current process_event call
    last,            \* observation: the raw event (or IME event) of the step just taken
    pre,             \* observation: the processor's fields before that step
    out,             \* observation: what that step handed to the sink, in order
    sent,            \* observation: the X requests / client messages that step sent, in order
    trace            \* observation: that step's sink calls, lock and registry operations,
                     \*              in program order

geom == << shared, screen, monitor_cache, notified, lastCfg >>
loop == << event_queue, conn, cur, arrived, taken, delivered >>
chan == << ime_requests, requested, applied >>
ext == << geom, devices, loop >>
prog == << windows, has_focus, dnd, active_window, held_key_press, is_composing,
           mods, first_touch, num_touch >>
hist == << keyDown, touches, lastTouch, session, recent, composer >>
told == << reported, announced >>
obs == << last, pre, out, sent, trace >>
vars == << prog, ext, chan, hist, told, pc, obs >>

\* a semantic event handed to the sink
Ev(tag, w, arg) == [ev |-> tag, window |-> w, arg |-> arg]
\* a raw event taken from the queue
Raw(tag, w, arg) == [tag |-> tag, window |-> w, arg |-> arg]
\* a client message or request sent to the server
Msg(tag, w, to, state) == [msg |-> tag, window |-> w, to |-> to, state |-> state]

NoEvent == Raw("none", 0, << >>)

\* one operation of a branch: a sink call, or an operation on a lock or a registry
Op(kind, w, e) == [op |-> kind, on |-> w, ev |-> e]
NoEv == Ev("", 0, << >>)
Sink(e) == Op("sink", e.window, e)
Lock(w) == Op("lock", w, NoEv)
Unlock(w) == Op("unlock", w, NoEv)
\* the sink calls of a sequence of events, with nothing else in between
SinkOps(o) == [i \in 1 .. Len(o) |-> Sink(o[i])]
\* the events a sequence of operations hands to the sink
Sunk(t) ==
    LET calls == SelectSeq(t, LAMBDA x : x.op = "sink")
    IN [i \in 1 .. Len(calls) |-> calls[i].ev]

\* the indices of the events tagged tag that o holds for window w
SentTo(o, tag, w) == { i \in 1 .. Len(o) : o[i].ev = tag /\ o[i].window = w }
Latest(S) == CHOOSE i \in S : \A j \in S : j <= i

\* reported after the sink received o: the set of each window's last ModifiersChanged
ReportedAfter(rep, o) ==
    [w \in DOMAIN rep |->
        IF SentTo(o, "ModifiersChanged", w) = {} THEN rep[w]
        ELSE o[Latest(SentTo(o, "ModifiersChanged", w))].arg[1]]

\* announced after the sink received o: the scale of each window's last ScaleFactorChanged
AnnouncedAfter(ann, o) ==
    [w \in DOMAIN ann |->
        IF SentTo(o, "ScaleFactorChanged", w) = {} THEN ann[w]
        ELSE << o[Latest(SentTo(o, "ScaleFactorChanged", w))].arg[1] >>]

Snapshot ==
    [ windows |-> windows, has_focus |-> has_focus, dnd |-> dnd,
      active_window |-> active_window, held_key_press |-> held_key_press,
      is_composing |-> is_composing, mods |-> mods, first_touch |-> first_touch,
      num_touch |-> num_touch, keyDown |-> keyDown, touches |-> touches,
      session |-> session, shared |-> shared, devices |-> devices,
      ime_requests |-> ime_requests, applied |-> applied, lastCfg |-> lastCfg,
      event_queue |-> event_queue, conn |-> conn, recent |-> recent,
      composer |-> composer, reported |-> reported, announced |-> announced ]

Init ==
    /\ windows = [w \in Windows |-> "live"]
    /\ has_focus = [w \in Windows |-> FALSE]
    /\ shared = [w \in Windows |-> SharedNew]
    /\ dnd = DndIdle
    /\ active_window = None
    /\ held_key_press = None
    /\ is_composing = FALSE
    /\ mods = {}
    /\ first_touch = None
    /\ num_touch = 0
    /\ devices = InitialDevices
    /\ event_queue = << >>
    /\ ime_requests = << >>
    /\ screen = FirstLayout
    /\ monitor_cache = Some(FirstLayout)
    /\ conn = << >>
    /\ cur = None
    /\ keyDown = {}
    /\ touches = << >>
    /\ lastTouch = 0
    /\ session = "none"
    /\ recent = FALSE
    /\ composer = None
    /\ reported = [w \in Windows |-> {}]
    /\ announced = [w \in Windows |-> None]
    /\ arrived = 0
    /\ taken = << >>
    /\ delivered = << >>
    /\ requested = 0
    /\ applied = << >>
    /\ notified = 0
    /\ lastCfg = None
    /\ pc = "idle"
    /\ last = NoEvent
    /\ pre = << >>
    /\ out = << >>
    /\ sent = << >>
    /\ trace = << >>

\* the step taken is the branch of raw event e; it ran the operations t and sent s
MatchedT(e, t, s) ==
    /\ pc' = "matched"
    /\ last' = e
    /\ pre' = Snapshot
    /\ out' = Sunk(t)
    /\ sent' = s
    /\ trace' = t
    /\ reported' = ReportedAfter(reported, Sunk(t))
    /\ announced' = AnnouncedAfter(announced, Sunk(t))

\* the same, for a branch that left process_event by `return`
EarlyReturnT(e, t, s) ==
    /\ pc' = "returned"
    /\ last' = e
    /\ pre' = Snapshot
    /\ out' = Sunk(t)
    /\ sent' = s
    /\ trace' = t
    /\ reported' = ReportedAfter(reported, Sunk(t))
    /\ announced' = AnnouncedAfter(announced, Sunk(t))

\* a branch that does nothing but call the sink: it emitted o and sent s
Matched(e, o, s) == MatchedT(e, SinkOps(o), s)
EarlyReturn(e, o, s) == EarlyReturnT(e, SinkOps(o), s)

(* --------------------------- DND handshake ---------------------------- *)

\* flags >> 24
EnterVersion(flags) == flags \div Pow24

\* flags - (flags & (u32::max_value() - 1)) == 1
HasMoreTypes(flags) == flags - (flags - (flags % 2)) = 1

XdndEnter(w, src, flags, inline, more) ==
    /\ pc = "idle"
    /\ dnd' = [dnd EXCEPT
                 !.version = Some(EnterVersion(flags)),
                 !.type_list = IF ~HasMoreTypes(flags) THEN Some(inline)
                               ELSE IF IsSome(more) THEN more
                               ELSE @]
    /\ Matched(Raw("XdndEnter", w, << src, flags >>), << >>, << >>)
    /\ session' = "entered"
    /\ recent' = FALSE
    /\ UNCHANGED << windows, has_focus, active_window, held_key_press, is_composing,
                    mods, first_touch, num_touch, ext, chan, keyDown, touches, lastTouch,
                    composer >>

\* mutant: only the first advertised type is looked at
PositionAccepted_FirstType(d) ==
    IF IsSome(d.type_list) THEN Unwrap(d.type_list)[1] = TextUriList ELSE FALSE

\* XdndPosition: the `accepted` flag
PositionAccepted(d) ==
    IF IsSome(d.type_list) THEN Contains(Unwrap(d.type_list), TextUriList) ELSE FALSE

\* mutant: a rejected Position replies but leaves the session state behind
XdndPosition_NoReset(w, src) ==
    /\ pc = "idle"
    /\ IF PositionAccepted(dnd)
       THEN /\ dnd' = [dnd EXCEPT !.source_window = Some(src)]
            /\ Matched(Raw("XdndPosition", w, << src >>), << >>,
                       (IF dnd.result = None
                        THEN << Msg("ConvertSelection", w, 0, "") >> ELSE << >>)
                       \o << Msg("XdndStatus", w, src, Accepted) >>)
       ELSE /\ dnd' = [dnd EXCEPT !.source_window = None, !.result = None]
            /\ Matched(Raw("XdndPosition", w, << src >>), << >>,
                       << Msg("XdndStatus", w, src, Rejected) >>)
    /\ session' = IF PositionAccepted(dnd) /\ session # "none" THEN "positioned" ELSE "none"
    /\ recent' = (PositionAccepted(dnd) /\ recent)
    /\ UNCHANGED << windows, has_focus, active_window, held_key_press, is_composing,
                    mods, first_touch, num_touch, ext, chan, keyDown, touches, lastTouch,
                    composer >>

XdndPosition(w, src) ==
    /\ pc = "idle"
    /\ IF PositionAccepted(dnd)
       THEN /\ dnd' = [dnd EXCEPT !.source_window = Some(src)]
            /\ Matched(Raw("XdndPosition", w, << src >>), << >>,
                       (IF dnd.result = None
                        THEN << Msg("ConvertSelection", w, 0, "") >> ELSE << >>)
                       \o << Msg("XdndStatus", w, src, Accepted) >>)
       ELSE /\ dnd' = DndReset(dnd)
            /\ Matched(Raw("XdndPosition", w, << src >>), << >>,
                       << Msg("XdndStatus", w, src, Rejected) >>)
    /\ session' = IF PositionAccepted(dnd) /\ session # "none" THEN "positioned" ELSE "none"
    /\ recent' = (PositionAccepted(dnd) /\ recent)
    /\ UNCHANGED << windows, has_focus, active_window, held_key_press, is_composing,
                    mods, first_touch, num_touch, ext, chan, keyDown, touches, lastTouch,
                    composer >>

\* mutant: the status follows the cached result instead of source_window
DropReply_ByResult(d, src) ==
    << (IF IsSome(d.source_window) THEN Unwrap(d.source_window) ELSE src),
       (IF IsSome(d.result) THEN Accepted ELSE Rejected) >>

\* the (source_window, state) pair the XdndDrop branch computes
DropReply(d, src) ==
    IF IsSome(d.source_window)
    THEN << Unwrap(d.source_window), Accepted >>
    ELSE << src, Rejected >>

\* mutant: the cached paths are dropped whether or not a source window is recorded
DropEvents_ByResult(d, w) ==
    IF IsSome(d.result) /\ Unwrap(d.result).ok
    THEN [i \in 1 .. Len(Unwrap(d.result).paths) |->
            Ev("DroppedFile", w, << Unwrap(d.result).paths[i] >>)]
    ELSE << >>

\* the DroppedFile events of the XdndDrop branch
DropEvents(d, w) ==
    IF IsSome(d.source_window) /\ IsSome(d.result) /\ Unwrap(d.result).ok
    THEN [i \in 1 .. Len(Unwrap(d.result).paths) |->
            Ev("DroppedFile", w, << Unwrap(d.result).paths[i] >>)]
    ELSE << >>

\* mutant: the drop is answered twice (once per cached path list and once at the end)
XdndDrop_Twice(w, src) ==
    /\ pc = "idle"
    /\ dnd' = DndReset(dnd)
    /\ Matched(Raw("XdndDrop", w, << src >>), DropEvents(dnd, w),
               (IF IsSome(dnd.result)
                THEN << Msg("XdndFinished", w, DropReply(dnd, src)[1], DropReply(dnd, src)[2]) >>
                ELSE << >>)
               \o << Msg("XdndFinished", w, DropReply(dnd, src)[1], DropReply(dnd, src)[2]) >>)
    /\ session' = "none"
    /\ recent' = FALSE
    /\ UNCHANGED << windows, has_focus, active_window, held_key_press, is_composing,
                    mods, first_touch, num_touch, ext, chan, keyDown, touches, lastTouch,
                    composer >>

XdndDrop(w, src) ==
    /\ pc = "idle"
    /\ dnd' = DndReset(dnd)
    /\ Matched(Raw("XdndDrop", w, << src >>), DropEvents(dnd, w),
               << Msg("XdndFinished", w, DropReply(dnd, src)[1], DropReply(dnd, src)[2]) >>)
    /\ session' = "none"
    /\ recent' = FALSE
    /\ UNCHANGED << windows, has_focus, active_window, held_key_press, is_composing,
                    mods, first_touch, num_touch, ext, chan, keyDown, touches, lastTouch,
                    composer >>

\* mutant: Leave resets the session but tells the application nothing
XdndLeave_Silent(w) ==
    /\ pc = "idle"
    /\ dnd' = DndReset(dnd)
    /\ Matched(Raw("XdndLeave", w, << >>), << >>, << >>)
    /\ session' = "none"
    /\ recent' = FALSE
    /\ UNCHANGED << windows, has_focus, active_window, held_key_press, is_composing,
                    mods, first_touch, num_touch, ext, chan, keyDown, touches, lastTouch,
                    composer >>

XdndLeave(w) ==
    /\ pc = "idle"
    /\ dnd' = DndReset(dnd)
    /\ Matched(Raw("XdndLeave", w, << >>), << Ev("HoveredFileCancelled", w, << >>) >>, << >>)
    /\ session' = "none"
    /\ recent' = FALSE
    /\ UNCHANGED << windows, has_focus, active_window, held_key_press, is_composing,
                    mods, first_touch, num_touch, ext, chan, keyDown, touches, lastTouch,
                    composer >>

\* the HoveredFile events of the SelectionNotify branch; read is Option<parse result>
HoveredEvents(read, w) ==
    IF IsSome(read) /\ Unwrap(read).ok
    THEN [i \in 1 .. Len(Unwrap(read).paths) |->
            Ev("HoveredFile", w, << Unwrap(read).paths[i] >>)]
    ELSE << >>

SelectionNotify(w, isXdndSelection, read) ==
    /\ pc = "idle"
    /\ IF isXdndSelection
       THEN /\ dnd' = [dnd EXCEPT !.result = read]
            /\ Matched(Raw("SelectionNotify", w, << isXdndSelection, read >>),
                       HoveredEvents(read, w), << >>)
       ELSE /\ dnd' = dnd
            /\ Matched(Raw("SelectionNotify", w, << isXdndSelection, read >>), << >>, << >>)
    /\ session' = session
    /\ recent' = IF isXdndSelection THEN IsSome(read) ELSE recent
    /\ UNCHANGED << windows, has_focus, active_window, held_key_press, is_composing,
                    mods, first_touch, num_touch, ext, chan, keyDown, touches, lastTouch,
                    composer >>

(* -------------------------- window registry --------------------------- *)

\* with_window(id, ..).is_some() / window_exists(id): the entry is there and its owner alive
WindowExists(ws, w) == ws[w] = "live"

\* mutant: an entry whose owner is gone stays in the registry
WithWindow_NoCollect(ws, w) == ws

\* the registry after with_window(id, ..): an entry whose owner is gone is collected
WithWindow(ws, w) == IF ws[w] = "expired" THEN [ws EXCEPT ![w] = "absent"] ELSE ws

\* the operations of with_window(id, ..): the lookup, then the callback on a live entry
\* or the collection of an expired one
WithWindowOps(ws, w) ==
    << Op("with_window", w, NoEv) >>
    \o (IF ws[w] = "live" THEN << Op("callback", w, NoEv) >>
        ELSE IF ws[w] = "expired" THEN << Op("gc", w, NoEv) >>
        ELSE << >>)

\* the application drops its window: the registry's weak reference expires
DropWindow(w) ==
    /\ pc = "idle"
    /\ windows[w] = "live"
    /\ windows' = [windows EXCEPT ![w] = "expired"]
    /\ has_focus' = [has_focus EXCEPT ![w] = FALSE]
    /\ shared' = [shared EXCEPT ![w] = SharedNew]
    /\ lastCfg' = None
    /\ UNCHANGED << dnd, active_window, held_key_press, is_composing, mods,
                    first_touch, num_touch, screen, monitor_cache, notified, devices, loop,
                    chan, hist, told, pc, obs >>

DestroyNotify(w) ==
    /\ pc = "idle"
    /\ windows' = [windows EXCEPT ![w] = "absent"]
    /\ Matched(Raw("DestroyNotify", w, << >>), << Ev("Destroyed", w, << >>) >>, << >>)
    /\ lastCfg' = None
    /\ UNCHANGED << has_focus, dnd, active_window, held_key_press, is_composing, mods,
                    first_touch, num_touch, shared, screen, monitor_cache, notified, devices,
                    loop, chan, hist >>

(* --------------------- window and pointer events ---------------------- *)

\* ClientMessage whose data[0] is WM_DELETE_WINDOW or _NET_WM_PING (the XDND messages
\* are the actions of the DND handshake)
ClientMessage(w, kind) ==
    /\ pc = "idle"
    /\ CASE kind = "delete" ->
              Matched(Raw("ClientMessage", w, << kind >>),
                      << Ev("CloseRequested", w, << >>) >>, << >>)
         [] kind = "ping" ->
              Matched(Raw("ClientMessage", w, << kind >>), << >>,
                      << Msg("ClientMessage", w, 0, "pong") >>)
         [] OTHER -> Matched(Raw("ClientMessage", w, << kind >>), << >>, << >>)
    /\ UNCHANGED << prog, ext, chan, hist >>

MapNotify(w) ==
    /\ pc = "idle"
    /\ windows' = WithWindow(windows, w)
    /\ MatchedT(Raw("MapNotify", w, << >>),
                WithWindowOps(windows, w)
                \o (IF WindowExists(windows, w) THEN << Lock(w), Unlock(w) >> ELSE << >>)
                \o << Sink(Ev("Focused", w,
                               << IF WindowExists(windows, w) THEN has_focus[w] ELSE FALSE >>)) >>,
                << >>)
    /\ UNCHANGED << has_focus, dnd, active_window, held_key_press, is_composing, mods,
                    first_touch, num_touch, ext, chan, hist >>

VisibilityNotify(w, obscured) ==
    /\ pc = "idle"
    /\ windows' = WithWindow(windows, w)
    /\ MatchedT(Raw("VisibilityNotify", w, << obscured >>),
                << Sink(Ev("Occluded", w, << obscured >>)) >> \o WithWindowOps(windows, w),
                << >>)
    /\ UNCHANGED << has_focus, dnd, active_window, held_key_press, is_composing, mods,
                    first_touch, num_touch, ext, chan, hist >>

\* what the Expose branch hands to the sink
ExposeOut(w, count) ==
    IF count = 0 THEN << Ev("RedrawRequested", w, << >>) >> ELSE << >>

Expose(w, count) ==
    /\ pc = "idle"
    /\ Matched(Raw("Expose", w, << count >>), ExposeOut(w, count), << >>)
    /\ UNCHANGED << prog, ext, chan, hist >>

\* the button of a MouseInput event
MouseButton(detail) ==
    CASE detail = 1 -> "Left"
      [] detail = 2 -> "Middle"
      [] detail = 3 -> "Right"
      [] detail = 8 -> "Back"
      [] detail = 9 -> "Forward"
      [] OTHER -> "Other"

ButtonDetails == { 1, 3, 5, 8, 12 }

XinputButton(w, detail, press, emulated) ==
    /\ pc = "idle"
    /\ IF emulated
       THEN EarlyReturn(Raw("XinputButton", w, << detail, press, emulated >>), << >>, << >>)
       ELSE Matched(Raw("XinputButton", w, << detail, press, emulated >>),
                    IF detail \in 4 .. 7 THEN << >>
                    ELSE << Ev("MouseInput", w,
                               << IF press THEN Pressed ELSE Released, MouseButton(detail) >>) >>,
                    << >>)
    /\ UNCHANGED << prog, ext, chan, hist >>

\* device ids the server may name; the last one is not known at construction
AnyDevice == 1 .. (NumDevices + 1)

\* the valuators an XinputMotion may carry (axis numbers, ascending); axis 3 is a scroll
\* axis of every device
ValuatorSets == { << >>, << 2 >>, << 2, 3 >> }
AxisEvents(w, axes) ==
    [i \in 1 .. Len(axes) |->
        IF axes[i] = 3 THEN Ev("MouseWheel", w, << axes[i] >>)
        ELSE Ev("AxisMotion", w, << axes[i] >>)]

XinputMotion(w, pos, source, axes) ==
    /\ pc = "idle"
    /\ windows' = WithWindow(windows, w)
    /\ IF ~WindowExists(windows, w)
       THEN /\ shared' = shared
            /\ EarlyReturnT(Raw("XinputMotion", w, << pos, source, axes >>),
                            WithWindowOps(windows, w), << >>)
       ELSE LET moved == MaybeChange(shared[w].cursor_pos, pos)
                head == WithWindowOps(windows, w) \o << Lock(w), Unlock(w) >>
                        \o (IF moved THEN << Sink(Ev("CursorMoved", w, << pos >>)) >>
                            ELSE << >>)
            IN /\ shared' = [shared EXCEPT ![w].cursor_pos = Some(pos)]
               /\ IF source \in devices
                  THEN MatchedT(Raw("XinputMotion", w, << pos, source, axes >>),
                                head \o << Op("borrow_devices", 0, NoEv),
                                           Op("release_devices", 0, NoEv) >>
                                \o SinkOps(AxisEvents(w, axes)),
                                << >>)
                  ELSE EarlyReturnT(Raw("XinputMotion", w, << pos, source, axes >>),
                                    head \o << Op("borrow_devices", 0, NoEv),
                                               Op("release_devices", 0, NoEv) >>,
                                    << >>)
    /\ lastCfg' = None
    /\ UNCHANGED << has_focus, dnd, active_window, held_key_press, is_composing, mods,
                    first_touch, num_touch, screen, monitor_cache, notified, devices, loop,
                    chan, hist >>

XinputEnter(w, device) ==
    /\ pc = "idle"
    /\ windows' = WithWindow(windows, w)
    /\ MatchedT(Raw("XinputEnter", w, << device >>),
                << Op("borrow_devices", 0, NoEv), Op("release_devices", 0, NoEv) >>
                \o WithWindowOps(windows, w)
                \o (IF WindowExists(windows, w)
                    THEN << Sink(Ev("CursorEntered", w, << device >>)),
                            Sink(Ev("CursorMoved", w, << device >>)) >>
                    ELSE << >>),
                << >>)
    /\ UNCHANGED << has_focus, dnd, active_window, held_key_press, is_composing, mods,
                    first_touch, num_touch, ext, chan, hist >>

XinputLeave(w, device) ==
    /\ pc = "idle"
    /\ windows' = WithWindow(windows, w)
    /\ MatchedT(Raw("XinputLeave", w, << device >>),
                WithWindowOps(windows, w)
                \o (IF WindowExists(windows, w)
                    THEN << Sink(Ev("CursorLeft", w, << device >>)) >>
                    ELSE << >>),
                << >>)
    /\ UNCHANGED << has_focus, dnd, active_window, held_key_press, is_composing, mods,
                    first_touch, num_touch, ext, chan, hist >>

(* ------------------------- window geometry ---------------------------- *)

\* available_monitors(): the cached list, or the server's if nothing is cached
AvailableMonitors(cache, scr) == IF IsSome(cache) THEN Unwrap(cache) ELSE scr

\* mutant: every synthetic notification counts as a move, whatever is cached
ConfigureMoved_Uncached(inner_position, pos, synthetic) == synthetic

\* ConfigureNotify: the `moved` flag
ConfigureMoved(inner_position, pos, synthetic) ==
    IF synthetic THEN MaybeChange(inner_position, pos) ELSE FALSE

\* an operation that carries a value: a query's answer, a size written or requested
Val(kind, w, v) == Op(kind, w, Ev(kind, w, << v >>))

\* mutant: the outer position is derived from whatever the cache holds; an invalidated
\* cache counts as a frame without borders and nothing is queried
ExtentsOps_Stale(w, cached, fresh) ==
    [ extents |-> IF IsSome(cached) THEN Unwrap(cached) ELSE [left |-> 0, top |-> 0],
      ops |-> << >> ]

\* ConfigureNotify: the frame extents the outer position is derived from, the cached ones
\* or, if there are none, those get_frame_extents_heuristic answers (fresh)
ExtentsOps(w, cached, fresh) ==
    IF IsSome(cached) THEN [extents |-> Unwrap(cached), ops |-> << >>]
    ELSE [extents |-> fresh, ops |-> << Val("get_frame_extents", w, fresh) >>]

\* mutant: a parent-relative position is cached as the inner position too
InnerPositionAfter_Real(s, pos, synthetic) == Some(pos)

\* ConfigureNotify: inner_position after the first block
InnerPositionAfter(s, pos, synthetic) ==
    IF synthetic THEN Some(pos)
    ELSE IF MaybeChange(s.inner_position_rel_parent, pos) THEN None
    ELSE s.inner_position

\* mutant: the monitor found is stored even if it is the dummy
LastMonitorAfter_Dummy(s, monitor) == monitor

\* ConfigureNotify: last_monitor after the monitor lookup
LastMonitorAfter(s, monitor) == IF monitor.dummy THEN s.last_monitor ELSE monitor

\* mutant: the pending size is requested again on every window manager
WorkaroundClears_AnyWm(size, adjusted, xfwm) == size = adjusted

\* ConfigureNotify: does the dpi_adjusted check clear the pending marker?
WorkaroundClears(size, adjusted, xfwm) == size = adjusted \/ ~xfwm

\* mutant: the guard taken for the dpi_adjusted check is still held when Resized is emitted
ResizedOps_LockAcross(w, size, resized, hack) ==
    << Lock(w) >> \o hack
    \o (IF resized THEN << Sink(Ev("Resized", w, << size >>)) >> ELSE << >>)
    \o << Unlock(w) >>

\* mutant: Resized is emitted only if the cached size changed
ResizedFlag_SizeOnly(resized0, rerequest) == resized0

\* ConfigureNotify: the `resized` flag at the end of the branch
ResizedFlag(resized0, rerequest) == resized0 \/ rerequest

\* ConfigureNotify, its end: the dpi_adjusted check (hack) under its guard, the guard
\* dropped, then Resized
ResizedOps(w, size, resized, hack) ==
    << Lock(w) >> \o hack \o << Unlock(w) >>
    \o (IF resized THEN << Sink(Ev("Resized", w, << size >>)) >> ELSE << >>)

\* the ConfigureNotify branch for a live window whose shared state is s0: the state
\* afterwards, the monitor cache afterwards, the operations in program order and the
\* requests sent.  choice is what the sink writes through the InnerSizeWriter, xfwm what
\* wm_name_is_one_of(["Xfwm4"]) answers, fresh what get_frame_extents_heuristic answers.
Configure(s0, cache, scr, w, size, pos, synthetic, choice, xfwm, fresh) ==
    LET resized0 == MaybeChange(s0.size, size)
        moved == ConfigureMoved(s0.inner_position, pos, synthetic)
        relChanged == ~synthetic /\ MaybeChange(s0.inner_position_rel_parent, pos)
        s1 == [s0 EXCEPT
                 !.size = Some(size),
                 !.inner_position = InnerPositionAfter(s0, pos, synthetic),
                 !.inner_position_rel_parent = IF synthetic THEN @ ELSE Some(pos),
                 !.frame_extents = IF relChanged THEN None ELSE @]
        t1 == << Lock(w), Unlock(w), Lock(w), Unlock(w) >>
        derive == ~(IsSome(s1.position) /\ ~moved)
        fe == ExtentsOps(w, s1.frame_extents, fresh)
        outer == IF derive THEN InnerPosToOuter(fe.extents, pos) ELSE Unwrap(s1.position)
        s2 == IF derive
              THEN [s1 EXCEPT !.frame_extents = Some(fe.extents), !.position = Some(outer)]
              ELSE s1
        t2 == IF derive
              THEN << Lock(w) >> \o fe.ops \o << Unlock(w) >>
                   \o (IF moved THEN << Sink(Ev("Moved", w, << outer >>)) >> ELSE << >>)
              ELSE << >>
        old == IF IsSome(s2.dpi_adjusted) THEN Unwrap(s2.dpi_adjusted) ELSE size
        lastScale == s2.last_monitor.scale_factor
        monitor == MonitorForWindow(AvailableMonitors(cache, scr), outer)
        newScale == IF monitor.dummy THEN lastScale ELSE LastMonitorAfter(s2, monitor).scale_factor
        s3 == IF synthetic THEN [s2 EXCEPT !.last_monitor = LastMonitorAfter(s2, monitor)]
              ELSE s2
        scaled == synthetic /\ lastScale # newScale
        suggestion == AdjustForDpi(lastScale, newScale, old)
        chosen == Chosen(choice, suggestion, old)
        rerequest == scaled /\ chosen # old
        s4 == IF rerequest THEN [s3 EXCEPT !.dpi_adjusted = Some(chosen)] ELSE s3
        t3 == IF ~synthetic THEN << >>
              ELSE << Lock(w), Val("get_monitor_for_window", w, monitor), Unlock(w) >>
                   \o (IF ~scaled THEN << >>
                       ELSE << Sink(Ev("ScaleFactorChanged", w, << newScale, suggestion >>)),
                               Val("inner_size", w, chosen) >>
                            \o (IF rerequest
                                THEN << Val("request_inner_size", w, chosen),
                                        Lock(w), Unlock(w) >>
                                ELSE << >>))
        sent3 == IF rerequest THEN << Msg("ResizeRequest", w, 0, chosen) >> ELSE << >>
        resized == ResizedFlag(resized0, rerequest)
        pending == IsSome(s4.dpi_adjusted)
        asked == pending /\ size # Unwrap(s4.dpi_adjusted)
        clear == pending /\ WorkaroundClears(size, Unwrap(s4.dpi_adjusted), xfwm)
        s5 == IF clear THEN [s4 EXCEPT !.dpi_adjusted = None] ELSE s4
        sent4 == IF pending /\ ~clear
                 THEN << Msg("ResizeRequest", w, 0, Unwrap(s4.dpi_adjusted)) >> ELSE << >>
        hack == (IF asked THEN << Val("wm_name_is_one_of", w, xfwm) >> ELSE << >>)
                \o (IF pending /\ ~clear
                    THEN << Val("request_inner_size", w, Unwrap(s4.dpi_adjusted)) >>
                    ELSE << >>)
        t4 == ResizedOps(w, size, resized, hack)
    IN [ shared |-> s5,
         cache |-> IF synthetic THEN Some(AvailableMonitors(cache, scr)) ELSE cache,
         ops |-> t1 \o t2 \o t3 \o t4,
         sent |-> sent3 \o sent4 ]

ConfigureNotify(w, size, pos, synthetic, choice, xfwm, fresh) ==
    /\ pc = "idle"
    /\ notified < MaxNotifies
    /\ notified' = notified + 1
    /\ windows' = WithWindow(windows, w)
    /\ IF WindowExists(windows, w)
       THEN \E r \in { Configure(shared[w], monitor_cache, screen, w, size, pos, synthetic,
                                  choice, xfwm, fresh) } :
               /\ shared' = [shared EXCEPT ![w] = r.shared]
               /\ monitor_cache' = r.cache
               /\ MatchedT(Raw("ConfigureNotify", w, << size, pos, synthetic >>),
                           WithWindowOps(windows, w) \o r.ops, r.sent)
               /\ lastCfg' = Some(Raw("ConfigureNotify", w, << size, pos, synthetic >>))
       ELSE /\ UNCHANGED << shared, monitor_cache >>
            /\ MatchedT(Raw("ConfigureNotify", w, << size, pos, synthetic >>),
                        WithWindowOps(windows, w), << >>)
            /\ lastCfg' = None
    /\ UNCHANGED << has_focus, dnd, active_window, held_key_press, is_composing, mods,
                    first_touch, num_touch, screen, devices, loop, chan, hist >>

\* ReparentNotify: the window manager's cached description is refreshed and the window's
\* cached frame extents are invalidated
ReparentNotify(w) ==
    /\ pc = "idle"
    /\ windows' = WithWindow(windows, w)
    /\ shared' = IF WindowExists(windows, w)
                 THEN [shared EXCEPT ![w].frame_extents = None]
                 ELSE shared
    /\ lastCfg' = None
    /\ MatchedT(Raw("ReparentNotify", w, << >>), WithWindowOps(windows, w), << >>)
    /\ UNCHANGED << has_focus, dnd, active_window, held_key_press, is_composing, mods,
                    first_touch, num_touch, screen, monitor_cache, notified, devices, loop,
                    chan, hist >>

\* the server's monitors change (a monitor is plugged, unplugged or rescaled)
ScreenChange(layout) ==
    /\ pc = "idle"
    /\ layout # screen
    /\ screen' = layout
    /\ lastCfg' = None
    /\ UNCHANGED << prog, shared, monitor_cache, notified, devices, loop, chan, hist, told, pc, obs >>

\* the scale factor the previous list holds for the monitor of this name (Option)
PrevScaleFactor(prev_list, name) ==
    LET same == SelectSeq(prev_list, LAMBDA m : m.name = name)
    IN IF Len(same) = 0 THEN None ELSE Some(same[1].scale_factor)

\* RandrNotify, the body of the loop over the registry for one window: its operations
\* and the requests it sends.  actual is what inner_size_physical() answers.
RandrWindow(prev_list, new_monitor, w, actual, choice) ==
    LET monitor == shared[w].last_monitor
        prev == PrevScaleFactor(prev_list, new_monitor.name)
        base == IF IsSome(prev) THEN Unwrap(prev) ELSE monitor.scale_factor
        suggestion == AdjustForDpi(base, new_monitor.scale_factor, actual)
        chosen == Chosen(choice, suggestion, actual)
    IN IF windows[w] # "live" THEN [ops |-> << >>, sent |-> << >>]
       ELSE IF monitor.name # new_monitor.name
       THEN [ops |-> << Lock(w), Unlock(w) >>, sent |-> << >>]
       ELSE [ops |-> << Lock(w), Unlock(w), Lock(w), Unlock(w),
                        Sink(Ev("ScaleFactorChanged", w,
                                << new_monitor.scale_factor, suggestion >>)) >>,
             sent |-> IF chosen # actual
                      THEN << Msg("ResizeRequest", w, 0, chosen) >> ELSE << >>]

\* RandrNotify, the body of the loop over the new list for one monitor; order is the
\* order in which the registry's iterator yields the windows
RandrMonitor(prev_list, new_monitor, order, actual, choice) ==
    IF Some(new_monitor.scale_factor) = PrevScaleFactor(prev_list, new_monitor.name)
    THEN [ops |-> << >>, sent |-> << >>]
    ELSE [ops |-> << Op("borrow_windows", 0, NoEv) >>
                  \o Flatten([i \in 1 .. Len(order) |->
                        RandrWindow(prev_list, new_monitor, order[i], actual, choice).ops])
                  \o << Op("release_windows", 0, NoEv) >>,
          sent |-> Flatten([i \in 1 .. Len(order) |->
                        RandrWindow(prev_list, new_monitor, order[i], actual, choice).sent])]

\* the orders in which a HashMap over the window ids may iterate
WindowOrders ==
    { o \in [1 .. NumWindows -> Windows] : \A i, j \in 1 .. NumWindows : o[i] = o[j] => i = j }

RandrNotify(order, actual, choice) ==
    /\ pc = "idle"
    /\ notified < MaxNotifies
    /\ notified' = notified + 1
    /\ IF IsSome(monitor_cache)
       THEN LET prev_list == Unwrap(monitor_cache)
                new_list == screen
            IN /\ monitor_cache' = Some(new_list)
               /\ MatchedT(Raw("RandrNotify", 0, << >>),
                           Flatten([i \in 1 .. Len(new_list) |->
                              RandrMonitor(prev_list, new_list[i], order, actual, choice).ops]),
                           Flatten([i \in 1 .. Len(new_list) |->
                              RandrMonitor(prev_list, new_list[i], order, actual, choice).sent]))
       ELSE /\ monitor_cache' = None
            /\ MatchedT(Raw("RandrNotify", 0, << >>), << >>, << >>)
    /\ lastCfg' = None
    /\ UNCHANGED << prog, shared, screen, devices, loop, chan, hist >>

(* ------------------------------ keyboard ------------------------------ *)

\* keycodes a KeyPress / KeyRelease may carry
KeyCodes == { 0, 9, 10, 50 }
\* the keys the loaded keymap marks as repeating
RepeatKeys == { 9, 10 }
\* kb_state.key_repeats(keycode)
KeyRepeats(k) == k \in RepeatKeys

\* replies of query_keymap(): the keycodes down in the hardware key map, ascending
KeymapReplies == { << >>, << 3, 9 >>, << 9, 50 >> }

ModSets == { {}, { "SHIFT" } }

\* WindowEvent::KeyboardInput with the KeyEvent of process_key_event(keycode, state, repeat)
KeyboardInput(w, k, state, repeat, synthetic) ==
    Ev("KeyboardInput", w, << k, state, repeat, synthetic >>)

\* held_key_press after a key event
HeldAfter(held, k, press) ==
    IF KeyRepeats(k)
    THEN IF press THEN Some(k)
         ELSE IF held = Some(k) THEN None ELSE held
    ELSE held

\* mutant: a press counts as a repeat whenever some key is held
RepeatFlag_NoKeyCheck(held, k, press) == press /\ IsSome(held)

\* the repeat flag of a key event
RepeatFlag(held, k, press) ==
    IF KeyRepeats(k) THEN (IF press THEN held = Some(k) ELSE FALSE) ELSE FALSE

\* mutant: composition does not hold key events back
KeyOut_IgnoreComposing(w, k, press, repeat, composing) ==
    IF k # 0
    THEN << KeyboardInput(w, k, IF press THEN Pressed ELSE Released, repeat, FALSE) >>
    ELSE << >>

\* what the key branch hands to the sink
KeyOut(w, k, press, repeat, composing) ==
    IF k # 0 /\ ~composing
    THEN << KeyboardInput(w, k, IF press THEN Pressed ELSE Released, repeat, FALSE) >>
    ELSE << >>

KeyEvent(k, press) ==
    /\ pc = "idle"
    /\ keyDown' = IF ~KeyRepeats(k) THEN keyDown
                  ELSE IF press THEN keyDown \cup { k } ELSE keyDown \ { k }
    /\ IF active_window = None
       THEN /\ EarlyReturn(Raw(IF press THEN "KeyPress" ELSE "KeyRelease", 0, << k >>),
                           << >>, << >>)
            /\ held_key_press' = held_key_press
       ELSE /\ held_key_press' = HeldAfter(held_key_press, k, press)
            /\ Matched(Raw(IF press THEN "KeyPress" ELSE "KeyRelease", 0, << k >>),
                       KeyOut(Unwrap(active_window), k, press,
                              RepeatFlag(held_key_press, k, press), is_composing),
                       << >>)
    /\ UNCHANGED << windows, has_focus, dnd, active_window, is_composing, mods,
                    first_touch, num_touch, ext, chan, touches, lastTouch, session, recent,
                    composer >>

KeyPress(k) == KeyEvent(k, TRUE)
KeyRelease(k) == KeyEvent(k, FALSE)

\* mutant: every key of the hardware key map is reported, also keycodes below 8
PressedKeys_Unfiltered(w, keymap, state) ==
    [i \in 1 .. Len(keymap) |-> KeyboardInput(w, keymap[i], state, FALSE, TRUE)]

\* handle_pressed_keys: one synthetic key event per key of the hardware key map
PressedKeys(w, keymap, state) ==
    LET valid == SelectSeq(keymap, LAMBDA k : k >= KEYCODE_OFFSET)
    IN [i \in 1 .. Len(valid) |-> KeyboardInput(w, valid[i], state, FALSE, TRUE)]

\* mutant: ModifiersChanged is emitted on focus-in also for the empty set
FocusInEvents_ModsAlways(w, m, keymap) ==
    << Ev("Focused", w, << TRUE >>), Ev("ModifiersChanged", w, << m >>),
       Ev("CursorMoved", w, << >>) >>
    \o PressedKeys(w, keymap, Pressed)

\* what the focus-in branch hands to the sink, in order; m is kb_state.mods_state()
FocusInEvents(w, m, keymap) ==
    << Ev("Focused", w, << TRUE >>) >>
    \o (IF m # {} THEN << Ev("ModifiersChanged", w, << m >>) >> ELSE << >>)
    \o << Ev("CursorMoved", w, << >>) >>
    \o PressedKeys(w, keymap, Pressed)

XinputFocusIn(w, keymap) ==
    /\ pc = "idle"
    /\ IF active_window # Some(w)
       THEN /\ active_window' = Some(w)
            /\ windows' = WithWindow(windows, w)
            /\ has_focus' = IF WindowExists(windows, w)
                            THEN [has_focus EXCEPT ![w] = TRUE] ELSE has_focus
            /\ MatchedT(Raw("XinputFocusIn", w, << keymap >>),
                        WithWindowOps(windows, w)
                        \o (IF WindowExists(windows, w) THEN << Lock(w), Unlock(w) >>
                            ELSE << >>)
                        \o SinkOps(FocusInEvents(w, mods, keymap)),
                        << >>)
       ELSE /\ UNCHANGED << active_window, windows, has_focus >>
            /\ Matched(Raw("XinputFocusIn", w, << keymap >>), << >>, << >>)
    /\ UNCHANGED << dnd, held_key_press, is_composing, mods, first_touch, num_touch, ext, chan, hist >>

XinputFocusOut(w, keymap) ==
    /\ pc = "idle"
    /\ windows' = WithWindow(windows, w)
    /\ IF ~WindowExists(windows, w)
       THEN /\ EarlyReturnT(Raw("XinputFocusOut", w, << keymap >>),
                             WithWindowOps(windows, w), << >>)
            /\ UNCHANGED << active_window, held_key_press, has_focus >>
       ELSE /\ active_window' = None
            /\ IF active_window = Some(w)
               THEN /\ held_key_press' = None
                    /\ has_focus' = [has_focus EXCEPT ![w] = FALSE]
                    /\ MatchedT(Raw("XinputFocusOut", w, << keymap >>),
                                WithWindowOps(windows, w)
                                \o SinkOps(PressedKeys(w, keymap, Released)
                                           \o << Ev("ModifiersChanged", w, << {} >>) >>)
                                \o WithWindowOps(windows, w)
                                \o << Lock(w), Unlock(w),
                                      Sink(Ev("Focused", w, << FALSE >>)) >>,
                                << >>)
               ELSE /\ UNCHANGED << held_key_press, has_focus >>
                    /\ MatchedT(Raw("XinputFocusOut", w, << keymap >>),
                                WithWindowOps(windows, w), << >>)
    /\ UNCHANGED << dnd, is_composing, mods, first_touch, num_touch, ext, chan, hist >>

\* mutant: the event is emitted whether or not the modifiers changed
XkbStateNotify_Unconditional(new) ==
    /\ pc = "idle"
    /\ mods' = new
    /\ Matched(Raw("XkbStateNotify", 0, << new >>),
               IF IsSome(active_window)
               THEN << Ev("ModifiersChanged", Unwrap(active_window), << new >>) >>
               ELSE << >>,
               << >>)
    /\ UNCHANGED << windows, has_focus, dnd, active_window, held_key_press, is_composing,
                    first_touch, num_touch, ext, chan, hist >>

\* new is the effective modifier set after kb_state.update_modifiers(..)
XkbStateNotify(new) ==
    /\ pc = "idle"
    /\ mods' = new
    /\ Matched(Raw("XkbStateNotify", 0, << new >>),
               IF mods # new /\ IsSome(active_window)
               THEN << Ev("ModifiersChanged", Unwrap(active_window), << new >>) >>
               ELSE << >>,
               << >>)
    /\ UNCHANGED << windows, has_focus, dnd, active_window, held_key_press, is_composing,
                    first_touch, num_touch, ext, chan, hist >>

(* -------------------------------- touch ------------------------------- *)

\* the server hands out touch ids in increasing order and does not reuse one
TouchIds == 7 .. (6 + NumTouchIds)

Started == "Started"
Moved == "Moved"
Ended == "Ended"

\* mutant: every Started contact is recorded as the first one
FirstTouchAfter_AlwaysRecord(first, num, id, phase) ==
    CASE phase = Started -> Some(id)
      [] phase = Ended -> IF first = Some(id) THEN None ELSE first
      [] OTHER -> first

\* is_first_touch: *first after the call
FirstTouchAfter(first, num, id, phase) ==
    CASE phase = Started -> IF num = 0 THEN Some(id) ELSE first
      [] phase = Ended -> IF first = Some(id) THEN None ELSE first
      [] OTHER -> first

\* is_first_touch: *num after the call (saturating_sub on End)
NumTouchAfter(num, phase) ==
    CASE phase = Started -> num + 1
      [] phase = Ended -> IF num = 0 THEN 0 ELSE num - 1
      [] OTHER -> num

\* is_first_touch: the value returned
IsFirstTouch(first, num, id, phase) == FirstTouchAfter(first, num, id, phase) = Some(id)

\* the branch of XinputTouchBegin / XinputTouchUpdate / XinputTouchEnd
TouchBranch(tag, phase, id, w) ==
    /\ windows' = WithWindow(windows, w)
    /\ IF WindowExists(windows, w)
       THEN /\ first_touch' = FirstTouchAfter(first_touch, num_touch, id, phase)
            /\ num_touch' = NumTouchAfter(num_touch, phase)
            /\ MatchedT(Raw(tag, w, << id >>),
                        WithWindowOps(windows, w)
                        \o SinkOps((IF IsFirstTouch(first_touch, num_touch, id, phase)
                                    THEN << Ev("CursorMoved", w, << >>) >> ELSE << >>)
                                   \o << Ev("Touch", w, << id, phase >>) >>),
                        << >>)
       ELSE /\ UNCHANGED << first_touch, num_touch >>
            /\ MatchedT(Raw(tag, w, << id >>), WithWindowOps(windows, w), << >>)
    /\ UNCHANGED << has_focus, dnd, active_window, held_key_press, is_composing, mods,
                    ext, chan, keyDown, session, recent,
                    composer >>

\* a new contact, on window w
XinputTouchBegin(id, w) ==
    /\ pc = "idle"
    /\ id > lastTouch
    /\ lastTouch' = id
    /\ touches' = Append(touches, [id |-> id, window |-> w, seen |-> WindowExists(windows, w)])
    /\ TouchBranch("XinputTouchBegin", Started, id, w)

\* the i-th active contact moves
XinputTouchUpdate(i) ==
    /\ pc = "idle"
    /\ i \in 1 .. Len(touches)
    /\ UNCHANGED << touches, lastTouch >>
    /\ TouchBranch("XinputTouchUpdate", Moved, touches[i].id, touches[i].window)

\* the i-th active contact is lifted
XinputTouchEnd(i) ==
    /\ pc = "idle"
    /\ i \in 1 .. Len(touches)
    /\ touches' = SubSeq(touches, 1, i - 1) \o SubSeq(touches, i + 1, Len(touches))
    /\ UNCHANGED lastTouch
    /\ TouchBranch("XinputTouchEnd", Ended, touches[i].id, touches[i].window)

(* -------------------------- device hierarchy -------------------------- *)

\* xinput::HierarchyMask: the flags of one entry of a hierarchy-change notification
MASTER_ADDED == "MASTER_ADDED"
MASTER_REMOVED == "MASTER_REMOVED"
SLAVE_ADDED == "SLAVE_ADDED"
SLAVE_REMOVED == "SLAVE_REMOVED"
FlagSets ==
    { { MASTER_ADDED }, { MASTER_REMOVED }, { SLAVE_ADDED }, { SLAVE_REMOVED },
      { MASTER_ADDED, MASTER_REMOVED }, { SLAVE_ADDED, SLAVE_REMOVED },
      { "DEVICE_ENABLED" } }

\* flags.contains(mask): every bit of mask is set in flags
FlagsContain(flags, mask) == mask \subseteq flags

HierarchyInfo(d, flags) == [deviceid |-> d, flags |-> flags]
\* the entry lists of a notification: at most MaxInfos entries, for different devices
InfoLists ==
    UNION { { l \in [1 .. n -> { HierarchyInfo(d, f) : d \in AnyDevice, f \in FlagSets }] :
                \A i, j \in 1 .. n : l[i].deviceid = l[j].deviceid => i = j }
            : n \in 0 .. MaxInfos }

\* mutant: the registry entry is deleted first, the event is emitted afterwards
HierarchyEntryOps_RemoveFirst(info) ==
    IF FlagsContain(info.flags, { MASTER_ADDED, MASTER_REMOVED })
    THEN << Op("init_device", info.deviceid, NoEv),
            Sink(Ev("DeviceAdded", info.deviceid, << >>)) >>
    ELSE IF FlagsContain(info.flags, { SLAVE_ADDED, SLAVE_REMOVED })
    THEN << Op("remove_device", info.deviceid, NoEv),
            Sink(Ev("DeviceRemoved", info.deviceid, << >>)) >>
    ELSE << >>

\* the body of the loop over xev.infos for one entry
HierarchyEntryOps(info) ==
    IF FlagsContain(info.flags, { MASTER_ADDED, MASTER_REMOVED })
    THEN << Op("init_device", info.deviceid, NoEv),
            Sink(Ev("DeviceAdded", info.deviceid, << >>)) >>
    ELSE IF FlagsContain(info.flags, { SLAVE_ADDED, SLAVE_REMOVED })
    THEN << Sink(Ev("DeviceRemoved", info.deviceid, << >>)),
            Op("remove_device", info.deviceid, NoEv) >>
    ELSE << >>

\* the device registry after the first n operations of t; found tells whether
\* DeviceInfo::get finds the device init_device asks for
RECURSIVE DevicesAfter(_, _, _, _)
DevicesAfter(devs, t, n, found) ==
    IF n = 0 THEN devs
    ELSE LET before == DevicesAfter(devs, t, n - 1, found)
         IN CASE t[n].op = "init_device" ->
                   IF found THEN before \cup { t[n].on } ELSE before
              [] t[n].op = "remove_device" -> before \ { t[n].on }
              [] OTHER -> before

XinputHierarchy(infos, found) ==
    /\ pc = "idle"
    /\ LET ops == Flatten([i \in 1 .. Len(infos) |-> HierarchyEntryOps(infos[i])])
       IN /\ devices' = DevicesAfter(devices, ops, Len(ops), found)
          /\ MatchedT(Raw("XinputHierarchy", 0, << infos, found >>), ops, << >>)
    /\ UNCHANGED << prog, geom, loop, chan, hist >>

(* ----------------------------- event loop ----------------------------- *)

\* the serial number the server stamped on a raw event of the queue
Serial(e) == e.arg[2]
\* sink events, each with the serial of the raw event in whose call it was emitted
Tagged(n, o) == [i \in 1 .. Len(o) |-> [serial |-> n, ev |-> o[i]]]

\* the server sends an event: an Expose, or one of a kind process_event ignores
ServerSends(tag, w, count) ==
    /\ arrived < MaxEvents
    /\ arrived' = arrived + 1
    /\ conn' = Append(conn, Raw(tag, w, << count, arrived + 1 >>))
    /\ UNCHANGED << prog, geom, devices, event_queue, cur, taken, delivered, chan, hist, told,
                    pc, obs >>

\* poll(): is an event at hand?  One is read from the connection into the cache if the
\* cache is empty.
Poll ==
    /\ pc = "idle"
    /\ IF Len(event_queue) = 0 /\ Len(conn) > 0
       THEN /\ event_queue' = Append(event_queue, Head(conn))
            /\ conn' = Tail(conn)
       ELSE UNCHANGED << event_queue, conn >>
    /\ UNCHANGED << prog, geom, devices, cur, arrived, taken, delivered, chan, hist, told,
                    pc, obs >>

\* mutant: the connection is read before the cache is looked at
PollOne_ConnectionFirst(queue, pending) ==
    IF Len(pending) > 0
    THEN [event |-> Some(Head(pending)), queue |-> queue, conn |-> Tail(pending)]
    ELSE IF Len(queue) > 0
    THEN [event |-> Some(Head(queue)), queue |-> Tail(queue), conn |-> pending]
    ELSE [event |-> None, queue |-> queue, conn |-> pending]

\* poll_one_event(): the event returned, the cache and the connection afterwards
PollOne(queue, pending) ==
    IF Len(queue) > 0
    THEN [event |-> Some(Head(queue)), queue |-> Tail(queue), conn |-> pending]
    ELSE IF Len(pending) > 0
    THEN [event |-> Some(Head(pending)), queue |-> queue, conn |-> Tail(pending)]
    ELSE [event |-> None, queue |-> queue, conn |-> pending]

\* the event loop takes the next raw event
PollOneEvent ==
    /\ pc = "idle"
    /\ cur = None
    /\ cur' = PollOne(event_queue, conn).event
    /\ event_queue' = PollOne(event_queue, conn).queue
    /\ conn' = PollOne(event_queue, conn).conn
    /\ taken' = IF IsSome(PollOne(event_queue, conn).event)
                 THEN Append(taken, Serial(Unwrap(PollOne(event_queue, conn).event)))
                 ELSE taken
    /\ UNCHANGED << prog, geom, devices, arrived, delivered, chan, hist, told, pc, obs >>

\* process_event on the event poll_one_event returned
ProcessPolled ==
    /\ pc = "idle"
    /\ IsSome(cur)
    /\ LET e == Unwrap(cur)
           o == IF e.tag = "Expose" THEN ExposeOut(e.window, e.arg[1]) ELSE << >>
       IN /\ Matched(e, o, << >>)
          /\ delivered' = delivered \o Tagged(Serial(e), o)
    /\ UNCHANGED << prog, geom, devices, event_queue, conn, cur, arrived, taken, chan, hist >>

(* ------------------------------ IME step ------------------------------ *)

ImeKinds == { "Enabled", "Start", "Update", "Commit", "End", "Disabled" }
\* what ime.next_ime_event() returns: None, or Some((window, event))
ImePolls == { None } \cup { Some(<< w, k >>) : w \in Windows, k \in ImeKinds }

ImeComposing(poll, composing) ==
    IF poll = None THEN composing
    ELSE CASE Unwrap(poll)[2] = "Start" -> TRUE
           [] Unwrap(poll)[2] \in { "Commit", "End", "Disabled" } -> FALSE
           [] OTHER -> composing

\* mutant: an Update is translated whether or not a composition is under way

\* the window whose Start set is_composing, recorded with every assignment to the flag;
\* a Start for a window that is not the live active window is not followed
ImeComposer(poll, who, active, ws) ==
    IF poll = None THEN who
    ELSE CASE Unwrap(poll)[2] = "Start" ->
                IF active = Some(Unwrap(poll)[1]) /\ WindowExists(ws, Unwrap(poll)[1])
                THEN Some(Unwrap(poll)[1]) ELSE None
           [] Unwrap(poll)[2] \in { "Commit", "End", "Disabled" } -> None
           [] OTHER -> who

ImeEmit_UpdateAlways(poll, composing) ==
    IF poll = None THEN << >>
    ELSE LET w == Unwrap(poll)[1]
             k == Unwrap(poll)[2]
         IN CASE k = "Enabled" -> << Ev("Ime", w, << "Enabled" >>) >>
              [] k = "Start" -> << Ev("Ime", w, << "Preedit", "" >>) >>
              [] k = "Update" -> << Ev("Ime", w, << "Preedit", "text" >>) >>
              [] k = "Commit" -> << Ev("Ime", w, << "Preedit", "" >>),
                                    Ev("Ime", w, << "Commit", "text" >>) >>
              [] k = "End" -> << Ev("Ime", w, << "Preedit", "" >>) >>
              [] k = "Disabled" -> << Ev("Ime", w, << "Disabled" >>) >>

\* the translation of the polled IME event into WindowEvent::Ime events
ImeEmit(poll, composing) ==
    IF poll = None THEN << >>
    ELSE LET w == Unwrap(poll)[1]
             k == Unwrap(poll)[2]
         IN CASE k = "Enabled" -> << Ev("Ime", w, << "Enabled" >>) >>
              [] k = "Start" -> << Ev("Ime", w, << "Preedit", "" >>) >>
              [] k = "Update" -> IF composing
                                 THEN << Ev("Ime", w, << "Preedit", "text" >>) >>
                                 ELSE << >>
              [] k = "Commit" -> << Ev("Ime", w, << "Preedit", "" >>),
                                    Ev("Ime", w, << "Commit", "text" >>) >>
              [] k = "End" -> << Ev("Ime", w, << "Preedit", "" >>) >>
              [] k = "Disabled" -> << Ev("Ime", w, << "Disabled" >>) >>

\* ImeRequest::Position(window, x, y) / ImeRequest::Allow(window, allowed); n numbers the
\* requests in the order the application sent them
ImeRequests == { "Position", "Allow" }
Request(kind, w, n) == Ev(kind, w, << n >>)

\* another thread sends a request on the channel
SendImeRequest(kind, w) ==
    /\ requested < MaxRequests
    /\ requested' = requested + 1
    /\ ime_requests' = Append(ime_requests, Request(kind, w, requested + 1))
    /\ UNCHANGED << prog, ext, applied, hist, told, pc, obs >>

\* mutant: the whole channel is drained in one step
TryRecv_Drain(ch) == [got |-> ch, rest |-> << >>]

\* mpsc try_recv: at most the oldest pending message is taken
TryRecv(ch) ==
    IF Len(ch) = 0 THEN [got |-> << >>, rest |-> ch]
    ELSE [got |-> << Head(ch) >>, rest |-> Tail(ch)]

\* control leaves the match and reaches the IME step
EnterImeStep ==
    /\ pc = "matched"
    /\ pc' = "ime"
    /\ last' = NoEvent /\ pre' = << >> /\ out' = << >> /\ sent' = << >> /\ trace' = << >>
    /\ UNCHANGED << prog, ext, chan, hist, told >>

\* the IME step: one try_recv on the request channel, then one next_ime_event()
ImeStep(poll) ==
    /\ pc = "ime"
    /\ pc' = "polled"
    /\ ime_requests' = TryRecv(ime_requests).rest
    /\ applied' = applied \o TryRecv(ime_requests).got
    /\ requested' = requested
    /\ is_composing' = ImeComposing(poll, is_composing)
    /\ composer' = ImeComposer(poll, composer, active_window, windows)
    /\ last' = Raw("ImeEvent", 0, poll)
    /\ pre' = Snapshot
    /\ out' = ImeEmit(poll, is_composing)
    /\ sent' = << >>
    /\ trace' = [i \in 1 .. Len(TryRecv(ime_requests).got) |->
                    Op("apply", TryRecv(ime_requests).got[i].window,
                       TryRecv(ime_requests).got[i])]
                 \o SinkOps(ImeEmit(poll, is_composing))
    /\ delivered' = IF IsSome(cur)
                     THEN delivered \o Tagged(Serial(Unwrap(cur)), ImeEmit(poll, is_composing))
                     ELSE delivered
    /\ UNCHANGED << windows, has_focus, dnd, active_window, held_key_press,
                    mods, first_touch, num_touch, geom, devices, event_queue, conn, cur,
                    arrived, taken, keyDown, touches, lastTouch,
                    session, recent, told >>

\* process_event returns to the event loop
Return ==
    /\ pc \in { "returned", "polled" }
    /\ pc' = "idle"
    /\ cur' = None
    /\ last' = NoEvent /\ pre' = << >> /\ out' = << >> /\ sent' = << >> /\ trace' = << >>
    /\ UNCHANGED << prog, geom, devices, event_queue, conn, arrived, taken, delivered,
                    chan, hist, told >>

CallEnd == EnterImeStep \/ (\E poll \in ImePolls : ImeStep(poll)) \/ Return

(* ------------------------- specification: DND ------------------------- *)

ReadResults == { None } \cup { Some(r) : r \in ParseResults }
MoreTypes == { None } \cup { Some(t) : t \in PropertyTypes }

NextDnd ==
    \/ \E w \in Windows, src \in Sources, flags \in EnterFlags,
          inline \in InlineTypes, more \in MoreTypes :
            XdndEnter(w, src, flags, inline, more)
    \/ \E w \in Windows, src \in Sources : XdndPosition(w, src)
    \/ \E w \in Windows, src \in Sources : XdndDrop(w, src)
    \/ \E w \in Windows : XdndLeave(w)
    \/ \E w \in Windows, x \in BOOLEAN, read \in ReadResults : SelectionNotify(w, x, read)
    \/ CallEnd

SpecDnd == Init /\ [][NextDnd]_vars

(* ------------------- specification: keyboard and focus ---------------- *)

NextKbd ==
    \/ \E k \in KeyCodes : KeyPress(k)
    \/ \E k \in KeyCodes : KeyRelease(k)
    \/ \E w \in Windows, keymap \in KeymapReplies : XinputFocusIn(w, keymap)
    \/ \E w \in Windows, keymap \in KeymapReplies : XinputFocusOut(w, keymap)
    \/ \E new \in ModSets : XkbStateNotify(new)
    \/ \E w \in Windows : DestroyNotify(w)
    \/ \E w \in Windows : DropWindow(w)
    \/ CallEnd

SpecKbd == Init /\ [][NextKbd]_vars

(* ------------------------ specification: touch ------------------------ *)

NextTouch ==
    \/ \E id \in TouchIds, w \in Windows : XinputTouchBegin(id, w)
    \/ \E i \in 1 .. NumTouchIds : XinputTouchUpdate(i)
    \/ \E i \in 1 .. NumTouchIds : XinputTouchEnd(i)
    \/ \E w \in Windows : DestroyNotify(w)
    \/ \E w \in Windows : DropWindow(w)
    \/ CallEnd

SpecTouch == Init /\ [][NextTouch]_vars

(* ----------------- specification: window and pointer ------------------ *)

NextWin ==
    \/ \E w \in Windows, kind \in { "delete", "ping", "other" } : ClientMessage(w, kind)
    \/ \E w \in Windows : MapNotify(w)
    \/ \E w \in Windows, obscured \in BOOLEAN : VisibilityNotify(w, obscured)
    \/ \E w \in Windows, count \in { 0, 1 } : Expose(w, count)
    \/ \E w \in Windows, detail \in ButtonDetails, press \in BOOLEAN, emulated \in BOOLEAN :
            XinputButton(w, detail, press, emulated)
    \/ \E w \in Windows, pos \in Positions, source \in AnyDevice, axes \in ValuatorSets :
            XinputMotion(w, pos, source, axes)
    \/ \E w \in Windows, device \in Devices : XinputEnter(w, device)
    \/ \E w \in Windows, device \in Devices : XinputLeave(w, device)
    \/ \E w \in Windows, keymap \in KeymapReplies : XinputFocusIn(w, keymap)
    \/ \E w \in Windows, keymap \in KeymapReplies : XinputFocusOut(w, keymap)
    \/ \E w \in Windows : DestroyNotify(w)
    \/ \E w \in Windows : DropWindow(w)
    \/ CallEnd

SpecWin == Init /\ [][NextWin]_vars

(* ----------------------- specification: devices ---------------------- *)

NextDev ==
    \/ \E infos \in InfoLists, found \in BOOLEAN : XinputHierarchy(infos, found)
    \/ \E w \in Windows, device \in Devices : XinputEnter(w, device)
    \/ CallEnd

SpecDev == Init /\ [][NextDev]_vars

(* ---------------------- specification: event loop --------------------- *)

\* what the IME bridge holds in the runs of the event loop
LoopPolls == { None, Some(<< 1, "Commit" >>) }

NextLoop ==
    \/ \E tag \in { "Expose", "Other" }, w \in Windows, count \in { 0, 1 } :
            ServerSends(tag, w, count)
    \/ Poll
    \/ PollOneEvent
    \/ ProcessPolled
    \/ EnterImeStep
    \/ \E poll \in LoopPolls : ImeStep(poll)
    \/ Return

SpecLoop == Init /\ [][NextLoop]_vars

(* --------------------- specification: IME requests -------------------- *)

NextIme ==
    \/ \E w \in Windows, count \in { 0, 1 } : Expose(w, count)
    \/ \E k \in KeyCodes : KeyPress(k)
    \/ \E kind \in ImeRequests, w \in Windows : SendImeRequest(kind, w)
    \/ CallEnd

SpecIme == Init /\ [][NextIme]_vars

(* ---------------------- specification: geometry ---------------------- *)

NextGeom ==
    \/ \E w \in Windows, size \in Sizes, pos \in Positions, synthetic \in BOOLEAN,
          choice \in Choices, xfwm \in BOOLEAN :
            ConfigureNotify(w, size, pos, synthetic, choice, xfwm, HeuristicExtents)
    \/ \E order \in WindowOrders, actual \in Sizes, choice \in Choices :
            RandrNotify(order, actual, choice)
    \/ \E layout \in Layouts : ScreenChange(layout)
    \/ \E w \in Windows : DropWindow(w)
    \/ CallEnd

SpecGeom == Init /\ [][NextGeom]_vars

(* ------------------ specification: one window's geometry -------------- *)

\* the windows whose notifications this specification follows
ConfiguredWindows == { w \in Windows : \A v \in Windows : w <= v }

NextCfg ==
    \/ \E w \in ConfiguredWindows, size \in Sizes, pos \in Positions, synthetic \in BOOLEAN,
          choice \in Choices, xfwm \in BOOLEAN, fresh \in FrameExtents :
            ConfigureNotify(w, size, pos, synthetic, choice, xfwm, fresh)
    \/ \E w \in ConfiguredWindows : ReparentNotify(w)
    \/ \E order \in WindowOrders, actual \in Sizes, choice \in Choices :
            RandrNotify(order, actual, choice)
    \/ \E layout \in Layouts : ScreenChange(layout)
    \/ CallEnd

SpecCfg == Init /\ [][NextCfg]_vars

(* ============================== claims ================================ *)

\* the step just taken was the branch of a raw event with this tag
Did(tag) == pc \in { "matched", "returned" } /\ last.tag = tag

Finished(s) == { i \in 1 .. Len(s) : s[i].msg = "XdndFinished" }
Count(o, tag) == Cardinality({ i \in 1 .. Len(o) : o[i].ev = tag })

(* C1, as the spec states it: when XdndDrop is processed the XdndFinished   *)
(* reply is Accepted iff a parsed result is cached in the DND state at that *)
(* moment, and Rejected otherwise.                                          *)
C1_Original ==
    Did("XdndDrop") =>
        \A i \in Finished(sent) :
            (sent[i].state = Accepted) <=> IsSome(pre.dnd.result)

(* C1, amended: when XdndDrop is processed exactly one XdndFinished is sent;*)
(* it is Accepted, and addressed to the recorded source window, iff         *)
(* source_window is recorded in the DND state at that moment (a Position    *)
(* was accepted since the last reset), and Rejected, addressed to the       *)
(* window named in the Drop, otherwise; a cached result plays no part.      *)
C1_DropStatusFollowsSourceWindow ==
    Did("XdndDrop") =>
        /\ Len(sent) = 1
        /\ sent[1].msg = "XdndFinished"
        /\ sent[1].window = last.window
        /\ IF IsSome(pre.dnd.source_window)
           THEN sent[1].state = Accepted /\ sent[1].to = Unwrap(pre.dnd.source_window)
           ELSE sent[1].state = Rejected /\ sent[1].to = last.arg[1]

\* Enter -> Position -> Drop without SelectionNotify: Accepted, no result cached
C1_Witness ==
    /\ Did("XdndDrop")
    /\ pre.session = "positioned"
    /\ pre.dnd.result = None
    /\ IsSome(pre.dnd.source_window)
    /\ sent = << Msg("XdndFinished", last.window, Unwrap(pre.dnd.source_window), Accepted) >>

(* C2: for every sequence XdndEnter -> accepted XdndPosition(s) -> XdndDrop,*)
(* with or without a SelectionNotify in between, the Drop sends exactly one *)
(* XdndFinished, its status is Accepted, and the DND state is Idle (all     *)
(* four fields None) right afterwards.                                      *)
C2_DropAfterAcceptedPosition ==
    (Did("XdndDrop") /\ pre.session = "positioned") =>
        /\ Cardinality(Finished(sent)) = 1
        /\ \A i \in Finished(sent) : sent[i].state = Accepted
        /\ dnd.version = None /\ dnd.type_list = None
        /\ dnd.source_window = None /\ dnd.result = None

\* such a Drop with a file list delivered by SelectionNotify in between
C2_Witness ==
    /\ Did("XdndDrop")
    /\ pre.session = "positioned"
    /\ IsSome(pre.dnd.result)
    /\ Count(out, "DroppedFile") = MaxPaths
    /\ Cardinality(Finished(sent)) = 1

(* C3: processing XdndLeave, whatever DND state preceded it, leaves the DND *)
(* state Idle, emits exactly one HoveredFileCancelled, for the message's    *)
(* window, and sends no Status / Finished reply.                            *)
C3_LeaveCancels ==
    Did("XdndLeave") =>
        /\ dnd = DndIdle
        /\ out = << Ev("HoveredFileCancelled", last.window, << >>) >>
        /\ sent = << >>

\* a Leave that ends a session in which a result had been cached
C3_Witness ==
    /\ Did("XdndLeave")
    /\ pre.session = "positioned"
    /\ IsSome(pre.dnd.result)
    /\ IsSome(pre.dnd.version)
    /\ dnd = DndIdle

\* the step just taken was a terminal DND transition
TerminalDnd ==
    \/ Did("XdndDrop")
    \/ Did("XdndLeave")
    \/ Did("XdndPosition") /\ \E i \in 1 .. Len(sent) :
           sent[i].msg = "XdndStatus" /\ sent[i].state = Rejected

AllNone(d) ==
    d.version = None /\ d.type_list = None /\ d.source_window = None /\ d.result = None

(* C4: after every terminal DND transition (a Drop, a Leave, a rejected     *)
(* Position) version, type_list, source_window and result are None          *)
(* together; none is left set.                                              *)
C4_TerminalResetsAll == TerminalDnd => AllNone(dnd)

\* a rejected Position that found version, type_list and result set
C4_Witness ==
    /\ Did("XdndPosition")
    /\ sent = << Msg("XdndStatus", last.window, last.arg[1], Rejected) >>
    /\ IsSome(pre.dnd.version) /\ IsSome(pre.dnd.type_list) /\ IsSome(pre.dnd.result)
    /\ AllNone(dnd)

(* C5, as the spec states it: held_key_press = Some(k) only while k is a    *)
(* repeatable key whose last key event was a press, and releasing a key     *)
(* other than k never clears it.                                            *)
C5_HeldKeyIsPressed ==
    /\ IsSome(held_key_press) =>
          /\ KeyRepeats(Unwrap(held_key_press))
          /\ Unwrap(held_key_press) \in keyDown
    /\ (Did("KeyRelease") /\ IsSome(pre.held_key_press)
          /\ last.arg[1] # Unwrap(pre.held_key_press)) =>
          held_key_press = pre.held_key_press

NonSynthetic(o) ==
    { i \in 1 .. Len(o) : o[i].ev = "KeyboardInput" /\ ~o[i].arg[4] }

(* C6: while is_composing is true, processing a KeyPress or KeyRelease      *)
(* hands no non-synthetic KeyboardInput to the sink, whatever the keycode   *)
(* and the active window.                                                   *)
C6_ComposingHoldsKeysBack ==
    ((Did("KeyPress") \/ Did("KeyRelease")) /\ pre.is_composing) => NonSynthetic(out) = {}

\* a press of a real key for an active window, held back by the composition
C6_Witness ==
    /\ Did("KeyPress")
    /\ pre.is_composing
    /\ IsSome(pre.active_window)
    /\ last.arg[1] = 9
    /\ out = << >>

(* C7, as the spec states it: whenever XinputFocusIn installs window B as   *)
(* active_window while a different window A was active, Focused(false) for  *)
(* A has been handed to the sink before B becomes active.  (A is still      *)
(* active_window when the call starts, so nothing earlier can have done it: *)
(* the only place that emits Focused(false) also clears active_window.)     *)
C7_FocusOutBeforeFocusIn ==
    (Did("XinputFocusIn") /\ IsSome(pre.active_window)
       /\ pre.active_window # Some(last.window) /\ active_window = Some(last.window)) =>
        \E i \in 1 .. Len(out) :
            out[i] = Ev("Focused", Unwrap(pre.active_window), << FALSE >>)

(* C8: when XinputFocusOut is processed for the existing, active window,    *)
(* also while composing, the sink receives one synthetic Released           *)
(* KeyboardInput per key of the hardware key map with keycode >= 8, then    *)
(* ModifiersChanged(empty), then Focused(false); afterwards active_window   *)
(* and held_key_press are None and the window's has_focus is false.         *)
C8_FocusOutOrder ==
    (Did("XinputFocusOut") /\ pre.windows[last.window] = "live"
       /\ pre.active_window = Some(last.window)) =>
        LET w == last.window
            keymap == last.arg[1]
            held == { i \in 1 .. Len(keymap) : keymap[i] >= 8 }
            n == Cardinality(held)
        IN /\ Len(out) = n + 2
           /\ \A j \in 1 .. n :
                 /\ out[j].ev = "KeyboardInput" /\ out[j].window = w
                 /\ out[j].arg[1] >= 8
                 /\ out[j].arg[2] = Released /\ out[j].arg[4]
           /\ { out[j].arg[1] : j \in 1 .. n } = { keymap[i] : i \in held }
           /\ out[n + 1] = Ev("ModifiersChanged", w, << {} >>)
           /\ out[n + 2] = Ev("Focused", w, << FALSE >>)
           /\ active_window = None
           /\ held_key_press = None
           /\ ~has_focus[w]

\* focus-out while composing, with a repeatable key held and keycode 3 in the key map
C8_Witness ==
    /\ Did("XinputFocusOut")
    /\ pre.active_window = Some(last.window)
    /\ pre.windows[last.window] = "live"
    /\ pre.is_composing
    /\ pre.has_focus[last.window]
    /\ IsSome(pre.held_key_press)
    /\ last.arg[1] = << 3, 9 >>
    /\ Len(out) = 3

(* C9, as the spec states it: num_touch >= 0 always, and first_touch =      *)
(* Some(id) only while a contact with that id has begun and not yet ended.  *)
C9_FirstTouchIsActive ==
    /\ num_touch >= 0
    /\ IsSome(first_touch) =>
          \E i \in 1 .. Len(touches) : touches[i].id = Unwrap(first_touch)

TouchTags == { "XinputTouchBegin", "XinputTouchUpdate", "XinputTouchEnd" }
\* the step just taken was a touch event on an existing window
TouchOnWindow ==
    /\ pc = "matched"
    /\ last.tag \in TouchTags
    /\ pre.windows[last.window] = "live"
Cursor(o) == { i \in 1 .. Len(o) : o[i].ev = "CursorMoved" }
\* the active contacts the tracker was told of, in the order they began
SeenTouches == SelectSeq(touches, LAMBDA c : c.seen)

C11_SecondConfigureIsSilent ==
    (Did("ConfigureNotify") /\ pre.lastCfg = Some(last)) =>
        \A i \in 1 .. Len(out) : out[i].ev \notin { "Resized", "Moved" }

\* a synthetic ConfigureNotify for a new window, which emits Moved and Resized, and
\* then the same once more: the state right after the second
C11_Witness ==
    /\ Did("ConfigureNotify")
    /\ pre.lastCfg = Some(last)
    /\ notified = 2
    /\ last.arg[3]
    /\ pre.shared[last.window].size = Some(last.arg[1])
    /\ pre.shared[last.window].inner_position = Some(last.arg[2])
    /\ out = << >>

\* the windows whose SharedWindowState lock is held when operation i of t runs
LocksHeld(t, i) ==
    { w \in Windows :
        Cardinality({ j \in 1 .. (i - 1) : t[j].op = "lock" /\ t[j].on = w })
        > Cardinality({ j \in 1 .. (i - 1) : t[j].op = "unlock" /\ t[j].on = w }) }

C13_NoCallSkipsImeStep == pc # "returned"

\* the operations of t of this kind, as positions
OpsOf(t, kind) == { i \in 1 .. Len(t) : t[i].op = kind }

(* C14: in the IME step of a call at most one request is taken from the     *)
(* channel, the oldest pending one, and applied, so the requests are        *)
(* applied in the order they were sent; it is applied before any IME event  *)
(* of that step is handed to the sink; and at most one event of the IME     *)
(* bridge is translated (into one event, or an empty Preedit and a Commit). *)
C14_OneRequestPerTurn ==
    /\ \A i \in 1 .. Len(applied) : applied[i].arg[1] = i
    /\ pc = "polled" =>
          /\ IF Len(pre.ime_requests) = 0
             THEN applied = pre.applied /\ OpsOf(trace, "apply") = {}
             ELSE /\ applied = Append(pre.applied, Head(pre.ime_requests))
                  /\ Cardinality(OpsOf(trace, "apply")) = 1
          /\ \A i \in OpsOf(trace, "apply"), j \in OpsOf(trace, "sink") : i < j
          /\ Len(out) <= 2
          /\ \A i \in 1 .. Len(out) : out[i].ev = "Ime" /\ out[i].window = out[1].window
          /\ Len(out) = 2 => last.arg[1][2] = "Commit"

\* an IME step that found two requests pending and a Commit in the bridge
C14_Witness ==
    /\ pc = "polled"
    /\ Len(pre.ime_requests) = 2
    /\ Len(ime_requests) >= 1
    /\ Len(applied) = 2
    /\ trace[1].op = "apply"
    /\ Len(out) = 2

\* the branches that handle an event naming one of this process's windows, other than
\* DestroyNotify
WindowBranches ==
    { "ClientMessage", "ConfigureNotify", "MapNotify", "VisibilityNotify", "Expose",
      "XinputButton", "XinputMotion", "XinputEnter", "XinputLeave", "XinputFocusIn",
      "XinputFocusOut", "XinputTouchBegin", "XinputTouchUpdate", "XinputTouchEnd" }

(* C15, as the spec states it: for an event that names a window which is no *)
(* longer in the registry (destroyed, or its owner dropped), the handling   *)
(* branch hands nothing to the sink, for every window-targeted branch other *)
(* than DestroyNotify.                                                      *)
C15_GoneWindowIsSilent ==
    (pc \in { "matched", "returned" } /\ last.tag \in WindowBranches
       /\ pre.windows[last.window] # "live") => out = << >>

\* the serials of a sequence of raw events
Serials(q) == [i \in 1 .. Len(q) |-> Serial(q[i])]

(* C16: the raw queue is FIFO: poll_one_event returns the events in the     *)
(* order the server sent them, an event cached by poll() before any that is *)
(* still on the connection, none twice and none dropped.  The sink receives *)
(* the events of one raw event before those of the next one dequeued, and   *)
(* within one raw event what the branch emits before that turn's IME events.*)
C16_FifoAndSinkOrder ==
    /\ taken = [i \in 1 .. Len(taken) |-> i]
    /\ Serials(event_queue \o conn) = [i \in 1 .. (arrived - Len(taken)) |-> Len(taken) + i]
    /\ \A i, j \in 1 .. Len(delivered) :
          i < j =>
            /\ delivered[i].serial <= delivered[j].serial
            /\ (delivered[i].serial = delivered[j].serial /\ delivered[i].ev.ev = "Ime") =>
                  delivered[j].ev.ev = "Ime"
    /\ \A i \in 1 .. Len(delivered) : delivered[i].serial \in 1 .. Len(taken)
    /\ pc \in { "matched", "polled" } /\ IsSome(cur) =>
          /\ Len(delivered) >= Len(out)
          /\ SubSeq(delivered, Len(delivered) - Len(out) + 1, Len(delivered))
               = Tagged(Serial(Unwrap(cur)), out)

\* three events sent and taken in turn, the third being processed: the sink has had
\* the RedrawRequested of the first and the third and an IME event of the second turn
C16_Witness ==
    /\ taken = << 1, 2, 3 >>
    /\ pc = "polled"
    /\ Len(out) = 2
    /\ \E i \in 1 .. Len(delivered) :
          delivered[i].serial = 1 /\ delivered[i].ev.ev = "RedrawRequested"
    /\ \E i \in 1 .. Len(delivered) : delivered[i].serial = 2 /\ delivered[i].ev.ev = "Ime"
    /\ \E i \in 1 .. Len(delivered) :
          delivered[i].serial = 3 /\ delivered[i].ev.ev = "RedrawRequested"

(* C17: on XkbStateNotify the keyboard state takes the new modifiers in     *)
(* every case; ModifiersChanged is handed to the sink iff the effective     *)
(* modifier set differs from the one before and active_window is Some, and  *)
(* then it is the only event, carries the new set and targets the active    *)
(* window.                                                                  *)
C17_ModifiersChangedOnChange ==
    Did("XkbStateNotify") =>
        /\ mods = last.arg[1]
        /\ IF pre.mods # mods /\ IsSome(pre.active_window)
           THEN out = << Ev("ModifiersChanged", Unwrap(pre.active_window), << mods >>) >>
           ELSE out = << >>

\* a change of the modifiers while a window is active
C17_Witness ==
    /\ Did("XkbStateNotify")
    /\ IsSome(pre.active_window)
    /\ pre.mods = {}
    /\ mods = { "SHIFT" }
    /\ Len(out) = 1

\* the entries of the hierarchy notification just processed
Infos == last.arg[1]
IsMasterChange(info) == MASTER_ADDED \in info.flags \/ MASTER_REMOVED \in info.flags
IsSlaveChange(info) == SLAVE_ADDED \in info.flags \/ SLAVE_REMOVED \in info.flags

(* C18, as the spec states it: for each entry of a hierarchy notification,  *)
(* a master device added or removed re-initialises the registry for that    *)
(* device and emits DeviceEvent::Added; a slave device added or removed     *)
(* emits DeviceEvent::Removed and deletes the device's registry entry.      *)
C18_HierarchyEntries ==
    Did("XinputHierarchy") =>
        \A i \in 1 .. Len(Infos) :
            /\ (IsMasterChange(Infos[i]) /\ ~IsSlaveChange(Infos[i])) =>
                  /\ \E j \in OpsOf(trace, "init_device") : trace[j].on = Infos[i].deviceid
                  /\ \E j \in 1 .. Len(out) :
                        out[j] = Ev("DeviceAdded", Infos[i].deviceid, << >>)
            /\ (IsSlaveChange(Infos[i]) /\ ~IsMasterChange(Infos[i])) =>
                  /\ \E j \in 1 .. Len(out) :
                        out[j] = Ev("DeviceRemoved", Infos[i].deviceid, << >>)
                  /\ Infos[i].deviceid \notin devices

(* C19: whenever a hierarchy entry leads to the removal of a device, the    *)
(* sink has received DeviceEvent::Removed for it before the registry entry  *)
(* is deleted: when the sink is called with Removed(d), d is still in the   *)
(* registry if it was there before the event, and the deletion follows.     *)
C19_RemovedBeforeDeletion ==
    Did("XinputHierarchy") =>
        /\ \A j \in OpsOf(trace, "remove_device") :
              \E i \in 1 .. (j - 1) :
                  trace[i] = Sink(Ev("DeviceRemoved", trace[j].on, << >>))
        /\ \A i \in OpsOf(trace, "sink") :
              (trace[i].ev.ev = "DeviceRemoved" /\ trace[i].on \in pre.devices) =>
                  /\ trace[i].on \in DevicesAfter(pre.devices, trace, i - 1, last.arg[2])
                  /\ i < Len(trace)
                  /\ trace[i + 1] = Op("remove_device", trace[i].on, NoEv)

\* an entry with both slave flags for a registered device: Removed, then the deletion
C19_Witness ==
    /\ Did("XinputHierarchy")
    /\ \E i \in OpsOf(trace, "sink") :
          /\ trace[i].ev.ev = "DeviceRemoved"
          /\ trace[i].on \in pre.devices
          /\ trace[i].on \notin devices

\* the registry entry of w as the i-th operation of t finds it
EntryAt(t, i, w) ==
    IF \E j \in 1 .. (i - 1) : t[j] = Op("gc", w, NoEv) THEN "absent" ELSE pre.windows[w]

\* the branches all of whose registry lookups go through with_window
LookupBranches == { "MapNotify", "VisibilityNotify", "XinputFocusIn", "XinputFocusOut" }

(* C20: with_window(id, f) on an entry whose window has been dropped        *)
(* removes the entry, does not run f and yields None; on a live entry it    *)
(* runs f exactly once, yields its result and leaves the registry as it     *)
(* was; on an id that is not registered it yields None and leaves the       *)
(* registry as it was.                                                      *)
C20_WithWindow ==
    (pc \in { "matched", "returned" } /\ last.tag \in LookupBranches) =>
        /\ \A i \in OpsOf(trace, "with_window") :
              LET w == trace[i].on
                  entry == EntryAt(trace, i, w)
                  next == IF i < Len(trace) THEN trace[i + 1] ELSE Op("end", w, NoEv)
                  after == IF i + 1 < Len(trace) THEN trace[i + 2] ELSE Op("end", w, NoEv)
              IN /\ entry = "expired" => next = Op("gc", w, NoEv) /\ windows[w] = "absent"
                 /\ entry = "live" =>
                       /\ next = Op("callback", w, NoEv)
                       /\ after.op \notin { "callback", "gc" }
                       /\ windows[w] = "live"
                 /\ entry = "absent" =>
                       /\ next.op \notin { "callback", "gc" }
                       /\ windows[w] = pre.windows[w] \/ pre.windows[w] = "expired"
        /\ \A j \in OpsOf(trace, "callback") \cup OpsOf(trace, "gc") :
              j > 1 /\ trace[j - 1] = Op("with_window", trace[j].on, NoEv)
        /\ \A w \in Windows :
              windows[w] = IF pre.windows[w] = "expired"
                              /\ \E i \in OpsOf(trace, "with_window") : trace[i].on = w
                           THEN "absent" ELSE pre.windows[w]
        /\ last.tag = "MapNotify" =>
              out = << Ev("Focused", last.window,
                          << pre.windows[last.window] = "live" /\ pre.has_focus[last.window] >>) >>

\* MapNotify for a window the application has dropped: the entry is collected,
\* the callback does not run and the default, false, is reported
C20_Witness ==
    /\ Did("MapNotify")
    /\ pre.windows[last.window] = "expired"
    /\ windows[last.window] = "absent"
    /\ trace[2] = Op("gc", last.window, NoEv)
    /\ OpsOf(trace, "callback") = {}
    /\ out = << Ev("Focused", last.window, << FALSE >>) >>

\* the messages of s with this tag, as positions
MsgsOf(s, tag) == { i \in 1 .. Len(s) : s[i].msg = tag }

(* C22: an XdndPosition is accepted iff the recorded type_list is Some and  *)
(* contains text/uri-list, whatever the version and whether or not a result *)
(* is cached; exactly one XdndStatus is sent, to the source window the      *)
(* message names: Accepted, with source_window recorded, when accepted;     *)
(* Rejected, with the DND state Idle right afterwards, when not.            *)
C22_PositionAcceptance ==
    Did("XdndPosition") =>
        /\ Cardinality(MsgsOf(sent, "XdndStatus")) = 1
        /\ sent[Len(sent)].msg = "XdndStatus"
        /\ sent[Len(sent)].window = last.window
        /\ sent[Len(sent)].to = last.arg[1]
        /\ IF IsSome(pre.dnd.type_list)
              /\ \E i \in 1 .. Len(Unwrap(pre.dnd.type_list)) :
                    Unwrap(pre.dnd.type_list)[i] = TextUriList
           THEN /\ sent[Len(sent)].state = Accepted
                /\ dnd.source_window = Some(last.arg[1])
                /\ dnd.type_list = pre.dnd.type_list
           ELSE /\ sent[Len(sent)].state = Rejected
                /\ AllNone(dnd)

\* a Position accepted at version 0, with a result cached, for a type list that has
\* text/uri-list in second place
C22_Witness ==
    /\ Did("XdndPosition")
    /\ pre.dnd.version = Some(0)
    /\ IsSome(pre.dnd.result)
    /\ pre.dnd.type_list = Some(<< TextPlain, TextUriList, AtomNone >>)
    /\ sent = << Msg("XdndStatus", last.window, last.arg[1], Accepted) >>

(* C23, as the spec states it: within one drag session the selection        *)
(* conversion is requested on the first accepted Position only; a Position  *)
(* that follows an accepted Position of the same session requests none,     *)
(* whether or not a SelectionNotify has come in between.                    *)
C23_ConversionOncePerSession ==
    (Did("XdndPosition") /\ pre.session = "positioned") =>
        MsgsOf(sent, "ConvertSelection") = {}

(* C24: an XdndDrop that finds no source_window recorded sends exactly one  *)
(* XdndFinished, Rejected, to the source window the Drop names; it emits no *)
(* DroppedFile; the DND state is Idle afterwards.                           *)
C24_DropWithoutPosition ==
    (Did("XdndDrop") /\ pre.dnd.source_window = None) =>
        /\ sent = << Msg("XdndFinished", last.window, last.arg[1], Rejected) >>
        /\ out = << >>
        /\ AllNone(dnd)

\* such a Drop while a parsed file list is cached (its Position was rejected, the
\* SelectionNotify came afterwards)
C24_Witness ==
    /\ Did("XdndDrop")
    /\ pre.dnd.source_window = None
    /\ IsSome(pre.dnd.result)
    /\ Unwrap(pre.dnd.result).ok
    /\ Len(Unwrap(pre.dnd.result).paths) = MaxPaths
    /\ sent = << Msg("XdndFinished", last.window, last.arg[1], Rejected) >>
    /\ out = << >>

(* C25: a KeyPress of a repeatable key k is flagged repeat iff              *)
(* held_key_press = Some(k) just before it; a KeyRelease is never flagged   *)
(* repeat; a press or release of a non-repeatable key leaves held_key_press *)
(* as it was and is never flagged repeat (so a press of k that follows a    *)
(* tap of a non-repeatable key while k is held is still flagged repeat).    *)
C25_RepeatDetection ==
    (Did("KeyPress") \/ Did("KeyRelease")) =>
        /\ \A i \in NonSynthetic(out) :
              out[i].arg[3] = ( /\ last.tag = "KeyPress"
                                /\ KeyRepeats(last.arg[1])
                                /\ pre.held_key_press = Some(last.arg[1]) )
        /\ ~KeyRepeats(last.arg[1]) => held_key_press = pre.held_key_press
        /\ (last.tag = "KeyPress" /\ KeyRepeats(last.arg[1]) /\ IsSome(pre.active_window)) =>
              held_key_press = Some(last.arg[1])

\* a press of the non-repeatable key 50 while key 9 is held: not a repeat, 9 stays held
C25_Witness ==
    /\ Did("KeyPress")
    /\ last.arg[1] = 50
    /\ pre.held_key_press = Some(9)
    /\ held_key_press = Some(9)
    /\ Len(out) = 1
    /\ ~out[1].arg[3]

\* the kind of the IME event the step just taken polled ("" if there was none)
Polled == IF last.tag = "ImeEvent" /\ IsSome(last.arg) THEN Unwrap(last.arg)[2] ELSE ""
PolledWindow == Unwrap(last.arg)[1]

(* C30: in the translation of the polled IME event is_composing becomes     *)
(* true on Start, false on Commit, End and Disabled, and is changed by      *)
(* nothing else; an Update yields a Preedit only while is_composing is      *)
(* true; Commit yields an empty Preedit followed by Commit(text); hence a   *)
(* non-empty Preedit is emitted only while a composition is under way.      *)
C30_ImeTranslation ==
    /\ pc \in { "matched", "returned" } => is_composing = pre.is_composing
    /\ pc = "polled" =>
          /\ is_composing = ( \/ Polled = "Start"
                              \/ pre.is_composing /\ Polled \notin { "Commit", "End", "Disabled" } )
          /\ Polled = "Update" =>
                out = IF pre.is_composing
                      THEN << Ev("Ime", PolledWindow, << "Preedit", "text" >>) >>
                      ELSE << >>
          /\ Polled = "Commit" =>
                out = << Ev("Ime", PolledWindow, << "Preedit", "" >>),
                         Ev("Ime", PolledWindow, << "Commit", "text" >>) >>
          /\ \A i \in 1 .. Len(out) :
                (out[i].arg[1] = "Preedit" /\ out[i].arg[2] # "") =>
                    pre.is_composing /\ Polled = "Update"

\* an Update polled while no composition is under way: nothing is emitted
C30_Witness ==
    /\ pc = "polled"
    /\ Polled = "Update"
    /\ ~pre.is_composing
    /\ ~is_composing
    /\ out = << >>

\* the step just taken was the ConfigureNotify branch for a window that was live
Cfg == Did("ConfigureNotify") /\ pre.windows[last.window] = "live"
\* that window's shared state before and after, and what the notification reported
Before == pre.shared[last.window]
After == shared[last.window]
NewSize == last.arg[1]
NewPos == last.arg[2]
IsSynthetic == last.arg[3]
\* the value the i-th operation of the trace carries
ValueAt(i) == trace[i].ev.arg[1]
\* the resize requests of the DPI step (issued with no guard held) and of the
\* dpi_adjusted check (issued under its guard)
DpiRequests == { i \in OpsOf(trace, "request_inner_size") : LocksHeld(trace, i) = {} }
HackRequests == { i \in OpsOf(trace, "request_inner_size") : LocksHeld(trace, i) # {} }

\* the cached frame extents are invalid when the outer position may be derived
ExtentsInvalid ==
    \/ Before.frame_extents = None
    \/ ~IsSynthetic /\ Before.inner_position_rel_parent # Some(NewPos)
\* the branch derived an outer position
Derived == Before.position = None \/ Count(out, "Moved") > 0

(* C21: once a window's cached frame_extents is invalid (None, by           *)
(* ReparentNotify or by a change of the parent-relative position), a        *)
(* ConfigureNotify that derives an outer position first queries the frame   *)
(* extents, stores the answer in the cache and derives the position from    *)
(* it; one that derives none leaves the cached outer position alone.        *)
C21_FreshExtentsBeforeDerivation ==
    (Cfg /\ ExtentsInvalid) =>
        IF Derived
        THEN /\ Cardinality(OpsOf(trace, "get_frame_extents")) = 1
             /\ \A i \in OpsOf(trace, "get_frame_extents") :
                   /\ After.frame_extents = Some(ValueAt(i))
                   /\ After.position = Some(InnerPosToOuter(ValueAt(i), NewPos))
                   /\ \A j \in 1 .. Len(out) :
                         out[j].ev = "Moved" =>
                             out[j].arg[1] = InnerPosToOuter(ValueAt(i), NewPos)
        ELSE After.position = Before.position /\ After.frame_extents = None

\* a move after the extents, cached by an earlier derivation, were invalidated: the
\* frame found now has no borders, the cached one had
C21_Witness ==
    /\ Cfg
    /\ Before.frame_extents = None
    /\ Before.position = Some(InnerPosToOuter(HeuristicExtents, << 0, 0 >>))
    /\ \E i \in OpsOf(trace, "get_frame_extents") : ValueAt(i) = [left |-> 0, top |-> 0]
    /\ out = << Ev("Moved", last.window, << NewPos >>) >>

\* the size the DPI step compares the sink's choice with
DpiBase == IF IsSome(Before.dpi_adjusted) THEN Unwrap(Before.dpi_adjusted) ELSE NewSize

\* Resized, if emitted, is emitted once, last, with the size reported
ResizedOnceLast ==
    Count(out, "Resized") > 0 =>
        /\ Count(out, "Resized") = 1
        /\ out[Len(out)] = Ev("Resized", last.window, << NewSize >>)

(* C26, as the spec states it: for a ConfigureNotify on a live window       *)
(* Resized is emitted iff the reported size differs from the cached size or *)
(* the sink, in the DPI step, chose a size different from the reported one; *)
(* it is emitted once, as the last event, with the reported size.           *)
C26_Original ==
    Cfg =>
        /\ (Count(out, "Resized") > 0) <=>
              ( \/ Before.size # Some(NewSize)
                \/ \E i \in OpsOf(trace, "inner_size") : ValueAt(i) # NewSize )
        /\ ResizedOnceLast

(* C26, amended: for a ConfigureNotify on a live window Resized is emitted  *)
(* iff the reported size differs from the cached size or the DPI step       *)
(* issued a resize request, which it does iff the sink chose a size         *)
(* different from the pending dpi_adjusted size if there is one, and from   *)
(* the reported size otherwise; it is emitted once, as the last event       *)
(* (after any Moved and ScaleFactorChanged), with the reported size.        *)
C26_ResizedIffChangedOrRequested ==
    Cfg =>
        /\ (Count(out, "Resized") > 0) <=>
              (Before.size # Some(NewSize) \/ DpiRequests # {})
        /\ (DpiRequests # {}) <=>
              \E i \in OpsOf(trace, "inner_size") : ValueAt(i) # DpiBase
        /\ \A i \in DpiRequests :
              i > 1 /\ trace[i - 1].op = "inner_size" /\ ValueAt(i) = ValueAt(i - 1)
        /\ ResizedOnceLast

\* the size is the cached one and the sink accepts a suggestion equal to the reported
\* size while another size is pending: a request is issued and Resized emitted
C26_Witness ==
    /\ Cfg
    /\ Before.size = Some(NewSize)
    /\ IsSome(Before.dpi_adjusted)
    /\ \E i \in OpsOf(trace, "inner_size") : ValueAt(i) = NewSize
    /\ DpiRequests # {}
    /\ Count(out, "ScaleFactorChanged") = 1
    /\ out[Len(out)] = Ev("Resized", last.window, << NewSize >>)

(* C27: a real ConfigureNotify emits no Moved and does not write its        *)
(* coordinates into inner_position; if its position differs from the cached *)
(* parent-relative one it sets inner_position and frame_extents to None     *)
(* (frame_extents is Some afterwards only if the same branch queried it     *)
(* anew).  A synthetic one emits Moved, once, iff its position differs from *)
(* the cached inner_position, and then the cached outer position is the one *)
(* Moved carries.                                                           *)
C27_RealNeverMoves ==
    Cfg =>
        IF ~IsSynthetic
        THEN /\ Count(out, "Moved") = 0
             /\ After.inner_position_rel_parent = Some(NewPos)
             /\ IF Before.inner_position_rel_parent # Some(NewPos)
                THEN /\ After.inner_position = None
                     /\ \/ After.frame_extents = None
                        \/ \E i \in OpsOf(trace, "get_frame_extents") :
                              After.frame_extents = Some(ValueAt(i))
                ELSE After.inner_position = Before.inner_position
        ELSE /\ Count(out, "Moved") = IF Before.inner_position # Some(NewPos) THEN 1 ELSE 0
             /\ After.inner_position = Some(NewPos)
             /\ \A j \in 1 .. Len(out) :
                   out[j].ev = "Moved" =>
                       /\ After.position = Some(out[j].arg[1])
                       /\ out[j].arg[1] = InnerPosToOuter(Unwrap(After.frame_extents), NewPos)

\* a real notification at a new parent-relative position finds both caches filled and
\* empties them
C27_Witness ==
    /\ Cfg
    /\ ~IsSynthetic
    /\ IsSome(Before.inner_position)
    /\ IsSome(Before.frame_extents)
    /\ IsSome(Before.inner_position_rel_parent)
    /\ Before.inner_position_rel_parent # Some(NewPos)
    /\ After.inner_position = None
    /\ After.frame_extents = None
    /\ Count(out, "Moved") = 0

(* C28: ConfigureNotify looks the monitor up, and may emit                  *)
(* ScaleFactorChanged, only for a synthetic notification; it emits it, once,*)
(* iff the monitor found is not the dummy and its scale factor differs from *)
(* the cached last_monitor's; a dummy is not stored in last_monitor; after  *)
(* a lookup that found a real monitor last_monitor is that monitor.         *)
C28_ScaleFactorChanged ==
    Cfg =>
        IF ~IsSynthetic
        THEN /\ Count(out, "ScaleFactorChanged") = 0
             /\ OpsOf(trace, "get_monitor_for_window") = {}
             /\ After.last_monitor = Before.last_monitor
        ELSE /\ Cardinality(OpsOf(trace, "get_monitor_for_window")) = 1
             /\ \A i \in OpsOf(trace, "get_monitor_for_window") :
                   IF ValueAt(i).dummy
                   THEN /\ After.last_monitor = Before.last_monitor
                        /\ Count(out, "ScaleFactorChanged") = 0
                   ELSE /\ After.last_monitor = ValueAt(i)
                        /\ Count(out, "ScaleFactorChanged") =
                              IF ValueAt(i).scale_factor # Before.last_monitor.scale_factor
                              THEN 1 ELSE 0
                        /\ \A j \in 1 .. Len(out) :
                              out[j].ev = "ScaleFactorChanged" =>
                                  out[j].arg[1] = ValueAt(i).scale_factor

\* no monitor can be determined for a window last seen on a monitor of scale 2: the
\* dummy (scale 1) is not stored and nothing is emitted for it
C28_Witness ==
    /\ Cfg
    /\ IsSynthetic
    /\ Before.last_monitor.scale_factor = 2
    /\ \E i \in OpsOf(trace, "get_monitor_for_window") : ValueAt(i) = DummyMonitor
    /\ After.last_monitor = Before.last_monitor
    /\ Count(out, "ScaleFactorChanged") = 0

\* the dpi_adjusted marker when the check at the end of the branch is reached
Pending ==
    IF DpiRequests # {}
    THEN Some(ValueAt(CHOOSE i \in DpiRequests : TRUE))
    ELSE Before.dpi_adjusted
\* wm_name_is_one_of(["Xfwm4"]) was asked and answered yes
IsXfwm4 == \E i \in OpsOf(trace, "wm_name_is_one_of") : ValueAt(i)

(* C29: at the end of a ConfigureNotify with a dpi_adjusted size pending:   *)
(* if the reported size equals it, or the window manager is not Xfwm4, the  *)
(* marker is cleared and nothing is requested by the check; otherwise       *)
(* (Xfwm4, sizes differ) the check re-issues exactly one resize request,    *)
(* for the pending size, and the marker stays.  So the marker survives a    *)
(* ConfigureNotify, and the check issues a request, only on Xfwm4.          *)
C29_PendingSizeWorkaround ==
    Cfg =>
        /\ IF IsSome(Pending) /\ NewSize # Unwrap(Pending) /\ IsXfwm4
           THEN /\ After.dpi_adjusted = Pending
                /\ Cardinality(HackRequests) = 1
                /\ \A i \in HackRequests : ValueAt(i) = Unwrap(Pending)
           ELSE /\ After.dpi_adjusted = None
                /\ HackRequests = {}
        /\ (IsSome(Pending) /\ NewSize # Unwrap(Pending)) =>
              Cardinality(OpsOf(trace, "wm_name_is_one_of")) = 1
        /\ (IsSome(After.dpi_adjusted) \/ HackRequests # {}) => IsXfwm4

\* a size left pending by an earlier notification, not yet observed, on Xfwm4: the
\* request is issued again and the marker stays
C29_Witness ==
    /\ Cfg
    /\ IsSome(Before.dpi_adjusted)
    /\ DpiRequests = {}
    /\ NewSize # Unwrap(Before.dpi_adjusted)
    /\ IsXfwm4
    /\ Cardinality(HackRequests) = 1
    /\ After.dpi_adjusted = Before.dpi_adjusted

(* C31: XinputFocusIn for a window W other than active_window makes W the   *)
(* active window, sets the has_focus of W (when W is in the registry) and   *)
(* hands to the sink, in this order: Focused(true); ModifiersChanged with   *)
(* the current modifiers, only if they are not empty; CursorMoved; one      *)
(* synthetic Pressed KeyboardInput with repeat false per key of the         *)
(* hardware key map with keycode >= 8.  XinputFocusIn for the window that   *)
(* is already active emits nothing and changes no dispatcher state.         *)
C31_FocusInSequence ==
    Did("XinputFocusIn") =>
        LET w == last.window
            keymap == last.arg[1]
            keys == SelectSeq(keymap, LAMBDA k : k >= 8)
            m == IF pre.mods # {} THEN 1 ELSE 0
        IN IF pre.active_window # Some(w)
           THEN /\ active_window = Some(w)
                /\ (pre.windows[w] = "live") => has_focus[w]
                /\ Len(out) = 2 + m + Len(keys)
                /\ out[1] = Ev("Focused", w, << TRUE >>)
                /\ (m = 1) => out[2] = Ev("ModifiersChanged", w, << pre.mods >>)
                /\ out[2 + m] = Ev("CursorMoved", w, << >>)
                /\ \A j \in 1 .. Len(keys) :
                      /\ out[2 + m + j].ev = "KeyboardInput"
                      /\ out[2 + m + j].window = w
                      /\ out[2 + m + j].arg = << keys[j], Pressed, FALSE, TRUE >>
           ELSE /\ out = << >>
                /\ sent = << >>
                /\ active_window = pre.active_window
                /\ has_focus = pre.has_focus
                /\ held_key_press = pre.held_key_press
                /\ is_composing = pre.is_composing
                /\ mods = pre.mods
                /\ windows = pre.windows
                /\ dnd = pre.dnd

\* focus moves to a registered window while Shift is down and the key map holds a
\* keycode below 8 and one above
C31_Witness ==
    /\ Did("XinputFocusIn")
    /\ pre.active_window # Some(last.window)
    /\ pre.windows[last.window] = "live"
    /\ pre.mods # {}
    /\ last.arg[1] = << 3, 9 >>
    /\ Len(out) = 4
    /\ has_focus[last.window]

(* C32, as the spec states it: whenever an XdndPosition message is          *)
(* processed, dnd.version is Some, so the fallback version 5 of             *)
(* `unwrap_or(5)` is never used, whatever sequence of drag-and-drop         *)
(* messages the dispatcher receives.                                        *)
C32_VersionKnownAtPosition ==
    Did("XdndPosition") => IsSome(pre.dnd.version)

(* C33, as the spec states it: drag sessions are isolated.  The DroppedFile *)
(* events of an XdndDrop carry only paths that a SelectionNotify processed  *)
(* after the most recent XdndEnter delivered, and a result cached before    *)
(* that XdndEnter does not suppress the conversion request of the session's *)
(* first accepted XdndPosition.                                             *)
C33_SessionsIsolated ==
    /\ (Did("XdndDrop") /\ Count(out, "DroppedFile") > 0) => pre.recent
    /\ (Did("XdndPosition") /\ pre.session = "entered" /\ PositionAccepted(pre.dnd)
          /\ ~pre.recent) =>
          MsgsOf(sent, "ConvertSelection") # {}

(* C34, as the spec states it: XinputFocusOut for a window that exists and  *)
(* is not the active window leaves active_window, held_key_press and every  *)
(* window's has_focus as they were, and hands nothing to the sink.          *)
C34_FocusOutOfInactiveWindow ==
    (Did("XinputFocusOut") /\ pre.windows[last.window] = "live"
       /\ pre.active_window # Some(last.window)) =>
        /\ active_window = pre.active_window
        /\ held_key_press = pre.held_key_press
        /\ has_focus = pre.has_focus
        /\ out = << >>

(* C35, as the spec states it: whenever active_window is Some(w), w is a    *)
(* live window of the registry; and once the active window is gone          *)
(* (DestroyNotify, or its owner dropped), no KeyPress, KeyRelease or        *)
(* XkbStateNotify processed later hands a KeyboardInput or ModifiersChanged *)
(* for it to the sink.                                                      *)
C35_ActiveWindowIsLive ==
    /\ IsSome(active_window) => windows[Unwrap(active_window)] = "live"
    /\ (Did("KeyPress") \/ Did("KeyRelease") \/ Did("XkbStateNotify")) =>
          \A i \in 1 .. Len(out) :
              out[i].ev \in { "KeyboardInput", "ModifiersChanged" } =>
                  pre.windows[out[i].window] = "live"

(* C36, as the spec states it: after every processed event, every live      *)
(* window w has has_focus true iff active_window = Some(w); so at most one  *)
(* window has has_focus true.                                               *)
C36_FocusFlagMatchesActiveWindow ==
    /\ \A w \in Windows :
          windows[w] = "live" => (has_focus[w] <=> active_window = Some(w))
    /\ Cardinality({ w \in Windows : windows[w] = "live" /\ has_focus[w] }) <= 1

(* C37, as the spec states it: after every processed event, the modifier    *)
(* set last reported to the active window through ModifiersChanged (the     *)
(* empty set if none was reported to it yet, or the last one reported was   *)
(* empty) equals the current effective modifier set of the keyboard state,  *)
(* under every interleaving of state-notify, focus-in and focus-out events  *)
(* over several windows.                                                    *)
C37_ReportedModifiersCurrent ==
    IsSome(active_window) => reported[Unwrap(active_window)] = mods

(* C38, as the spec states it: is_composing is true only while the window   *)
(* whose IME session emitted Start still exists and is the active window;   *)
(* so a composition started for window A that never receives Commit, End or *)
(* Disabled does not suppress the KeyboardInput of a key event processed    *)
(* while another window B is the active window.                             *)
C38_ComposingScopedToWindow ==
    /\ (is_composing /\ IsSome(composer)) =>
          /\ windows[Unwrap(composer)] = "live"
          /\ active_window = composer
    /\ ((Did("KeyPress") \/ Did("KeyRelease")) /\ last.arg[1] # 0
          /\ IsSome(pre.active_window) /\ IsSome(pre.composer)
          /\ pre.active_window # pre.composer) =>
          NonSynthetic(out) # {}

(* C39, as the spec states it: once ScaleFactorChanged has been emitted for *)
(* a window at a scale factor (by RandrNotify in particular), a synthetic   *)
(* ConfigureNotify that finds the window on the same monitor at that same   *)
(* scale factor does not emit ScaleFactorChanged again and does not rescale *)
(* the size a second time.                                                  *)
C39_ScaleChangeAnnouncedOnce ==
    (Cfg /\ IsSynthetic /\ ~After.last_monitor.dummy
       /\ After.last_monitor.name = Before.last_monitor.name
       /\ pre.announced[last.window] = Some(After.last_monitor.scale_factor)) =>
        /\ Count(out, "ScaleFactorChanged") = 0
        /\ DpiRequests = {}

\* the registries (windows, devices) borrowed when the i-th operation of t runs
Borrowed(t, i) ==
    { r \in { "windows", "devices" } :
        Cardinality({ j \in 1 .. (i - 1) : t[j].op = "borrow_" \o r })
        > Cardinality({ j \in 1 .. (i - 1) : t[j].op = "release_" \o r }) }

(* C40, as the spec states it: in every branch, RandrNotify and             *)
(* XinputMotion included, the sink is never called while process_event      *)
(* holds a borrow of the window registry or of the device registry.         *)
C40_NoSinkCallUnderBorrow ==
    \A i \in OpsOf(trace, "sink") : Borrowed(trace, i) = {}

=============================================================================
